---- MODULE Spec2Model ----
(***************************************************************************)
(* WorkloadCompactor: admission service (AdmissionController +             *)
(* DNC-Library), placement coordinator (PlacementController) and the       *)
(* storage request scheduler (NFSEnforcer/scheduler).                      *)
(*                                                                         *)
(* The specifications share the module and its initial state: SpecAC and  *)
(* SpecAQ (admission service), SpecPC, SpecPF and SpecPV (placement        *)
(* coordinator), SpecSS, SpecWK, SpecOC, SpecLK, SpecKA and SpecRV         *)
(* (storage enforcer), SpecES (estimator) and SpecDN (DNC library).  Each  *)
(* one leaves the variables of the other parts at their initial values.    *)
(***************************************************************************)
EXTENDS Integers, Sequences, FiniteSets, TLC

\* the admission service
VARIABLES nc, clientInfoStore, enforcer, acResult, acCall, acCalls, acRunning

\* the placement coordinator
VARIABLES g_servers, g_clients, g_serverClientGrouping, g_workloads,
          g_currentClientInfo, g_workQueue, g_outstandingWork,
          g_nextWorkQueueIndex, g_bestWorkQueueIndex,
          g_workComplete, replicas, workers, pcThread, pcResult, pcCall, search, pcCalls

\* the storage scheduler
VARIABLES now, sched, workerThreads, jobCount, dispatched, dispatchedWork

acVars == <<nc, clientInfoStore, enforcer, acResult, acCall, acCalls, acRunning>>

pcVars == <<g_servers, g_clients, g_serverClientGrouping, g_workloads,
            g_currentClientInfo, g_workQueue, g_outstandingWork,
            g_nextWorkQueueIndex, g_bestWorkQueueIndex,
            g_workComplete, replicas, workers, pcThread, pcResult, pcCall, search, pcCalls>>

ssVars == <<now, sched, workerThreads, jobCount, dispatched, dispatchedWork>>

\* the locks of the storage enforcer
VARIABLES mutexes, threadOps

lkVars == <<mutexes, threadOps>>

\* the pool of RPC handles of the storage enforcer
VARIABLES poolSched, poolThread, poolJobs

kaVars == <<poolSched, poolThread, poolJobs>>

\* the storage estimator of a profile and the last call of estimateWork
VARIABLES pEst, estCall

esVars == <<pEst, estCall>>

\* a DNC of the library with two-hop flows and the last call of
\* calcFlowLatency
VARIABLES dnc, dncCall

dnVars == <<dnc, dncCall>>

\* a scheduler whose occupancy is asked for: its clock, for every tenant the
\* time its queue was in fact non-empty since the last getOccupancy call and
\* the time of that call, and the last call of getOccupancy
VARIABLES occNow, occSched, occTruth, occCall

occVars == <<occNow, occSched, occTruth, occCall>>

\* the threads that receive the requests of the connections of the storage
\* enforcer
VARIABLES receivers

rvVars == <<receivers>>

(***************************************************************************)
(* Doubles.  The code computes with IEEE doubles; the model computes with  *)
(* exact extended rationals n/d (d >= 0): d = 0 stands for +inf (n = 1),   *)
(* -inf (n = -1) and NaN (n = 0).                                          *)
(***************************************************************************)
Abs(x) == IF x < 0 THEN -x ELSE x

Sign(x) == IF x > 0 THEN 1 ELSE IF x < 0 THEN -1 ELSE 0

RECURSIVE Gcd(_, _)
Gcd(a, b) == IF b = 0 THEN a ELSE Gcd(b, a % b)

Rat(n, d) ==
    IF d = 0 THEN [n |-> Sign(n), d |-> 0]
    ELSE LET g == Gcd(Abs(n), d) IN [n |-> n \div g, d |-> d \div g]

RInt(k) == [n |-> k, d |-> 1]

Inf == [n |-> 1, d |-> 0]

NaN == [n |-> 0, d |-> 0]

IsNaN(a) == a.d = 0 /\ a.n = 0

IsInf(a) == a.d = 0 /\ a.n # 0

RNeg(a) == [n |-> -a.n, d |-> a.d]

RAdd(a, b) ==
    IF IsNaN(a) \/ IsNaN(b) THEN NaN
    ELSE IF a.d = 0 /\ b.d = 0 THEN (IF a.n = b.n THEN a ELSE NaN)
    ELSE IF a.d = 0 THEN a
    ELSE IF b.d = 0 THEN b
    ELSE Rat(a.n * b.d + b.n * a.d, a.d * b.d)

RSub(a, b) == RAdd(a, RNeg(b))

RMul(a, b) == IF IsNaN(a) \/ IsNaN(b) THEN NaN ELSE Rat(a.n * b.n, a.d * b.d)

RDiv(a, b) ==
    IF IsNaN(a) \/ IsNaN(b) THEN NaN
    ELSE Rat(a.n * b.d * (IF b.n < 0 THEN -1 ELSE 1), a.d * Abs(b.n))

RLt(a, b) ==
    /\ ~IsNaN(a)
    /\ ~IsNaN(b)
    /\ IF a.d = 0 /\ b.d = 0 THEN a.n < b.n ELSE a.n * b.d < b.n * a.d

RGt(a, b) == RLt(b, a)

RLe(a, b) == ~IsNaN(a) /\ ~IsNaN(b) /\ ~RLt(b, a)

RGe(a, b) == RLe(b, a)

RMin(a, b) == IF RLt(b, a) THEN b ELSE a

\* the safety margin 0.999 of WorkloadCompactor.cpp
Margin == Rat(999, 1000)

\* the margin 0.999999 of checkOverload
OverloadMargin == Rat(999999, 1000000)

(***************************************************************************)
(* Ordered iteration over std::set / std::map (ascending keys).            *)
(***************************************************************************)
SetMin(S) == CHOOSE x \in S : \A y \in S : x <= y

SetMax(S) == CHOOSE x \in S : \A y \in S : y <= x

\* the elements of a set of numbers in increasing order
RECURSIVE SortedSeq(_)
SortedSeq(S) == IF S = {} THEN <<>> ELSE <<SetMin(S)>> \o SortedSeq(S \ {SetMin(S)})

RECURSIVE SetToSeq(_)
SetToSeq(S) == IF S = {} THEN <<>> ELSE <<SetMin(S)>> \o SetToSeq(S \ {SetMin(S)})

Range(s) == { s[i] : i \in DOMAIN s }

RECURSIVE RSumSeq(_)
RSumSeq(s) == IF s = <<>> THEN RInt(0) ELSE RAdd(s[1], RSumSeq(Tail(s)))

(***************************************************************************)
(* JSON values.  Arrays carry the tag arr, strings that stand where an     *)
(* array is expected carry the tag str; an object is a record and          *)
(* isMember is membership in its domain.                                   *)
(***************************************************************************)
JArr(s) == [arr |-> s]

JStr(s) == [str |-> s]

isArray(v) == DOMAIN v = {"arr"}

isMember(v, f) == f \in DOMAIN v

removeMember(v, f) == [g \in (DOMAIN v) \ {f} |-> v[g]]

setMember(v, f, x) == [g \in (DOMAIN v) \cup {f} |-> IF g = f THEN x ELSE v[g]]

(***************************************************************************)
(* The catalogue of names the clients of the admission service use.  An    *)
(* id is the position of the name in its catalogue (the id <-> name        *)
(* bijection of NC); InvalidId is the Invalid sentinel.                    *)
(***************************************************************************)
InvalidId == 0

QueueNames == <<"Q0", "Q1", "Q2">>

QueueBandwidths == <<10, 10, 2000>>

ClientNames == <<"A", "B", "C", "D", "G", "H">>

FlowNames == <<"FA", "FB", "FC0", "FC1", "FG", "FH">>

IdOf(names, n) == IF \E i \in DOMAIN names : names[i] = n
                  THEN CHOOSE i \in DOMAIN names : names[i] = n
                  ELSE InvalidId

QueueInfoOf(q) == [name |-> QueueNames[q], bandwidth |-> QueueBandwidths[q]]

\* a flow over one queue with the one-segment arrival curve (rate r, burst b)
FlowInfoOf(fname, qname, r, b) ==
    [name |-> fname, queues |-> JArr(<<qname>>),
     arrivalInfo |-> JArr(<<[x |-> 0, y |-> b, slope |-> r]>>),
     enforcerType |-> "storage", enforcerAddr |-> "ss", clientAddr |-> fname]

\* A and B share Q0 and do not fit together; C has the SLO of A and a flow
\* on Q0 and on Q1, and fits with A and with B; D has a flow with the name of
\* the flow of B, and a burst that no shaper within its SLO can carry; G has
\* a flow without a burst whose rate is above the bandwidth of its queue; H
\* has a flow whose rate lies between 0.999 and 0.999999 of the bandwidth of
\* its queue
ClientInfoOf(c) ==
    CASE c = 1 -> [name |-> "A", SLO |-> 2,
                   flows |-> JArr(<<FlowInfoOf("FA", "Q0", 3, 8)>>)]
      [] c = 2 -> [name |-> "B", SLO |-> 1,
                   flows |-> JArr(<<FlowInfoOf("FB", "Q0", 4, 7)>>)]
      [] c = 3 -> [name |-> "C", SLO |-> 2, SLOpercentile |-> 99,
                   flows |-> JArr(<<FlowInfoOf("FC0", "Q0", 2, 2),
                                    FlowInfoOf("FC1", "Q1", 2, 2)>>)]
      [] c = 4 -> [name |-> "D", SLO |-> 1,
                   flows |-> JArr(<<FlowInfoOf("FB", "Q1", 2, 12)>>)]
      [] c = 5 -> [name |-> "G", SLO |-> 4,
                   flows |-> JArr(<<FlowInfoOf("FG", "Q1", 20, 0)>>)]
      [] c = 6 -> [name |-> "H", SLO |-> 4,
                   flows |-> JArr(<<FlowInfoOf("FH", "Q2", 1999, 1)>>)]

\* a well-formed client info that is only submitted with one defect put in
BaseInfo == [name |-> "E", SLO |-> 4, SLOpercentile |-> 50,
             flows |-> JArr(<<FlowInfoOf("FE", "Q1", 1, 1)>>)]

(***************************************************************************)
(* NC: the topology model.  The engine state e is a record                 *)
(*   queues   : queue id  -> [name, bandwidth, flows]  (flows: the vector  *)
(*              of FlowIndex entries in insertion order)                   *)
(*   clients  : client id -> [name, SLO, flowIds, latency]                 *)
(*   flows    : flow id   -> the DNCFlow record                            *)
(*   affected : WorkloadCompactor::_affectedQueueIds                       *)
(***************************************************************************)
EmptyNC == [queues |-> <<>>, clients |-> <<>>, flows |-> <<>>, affected |-> {}]

Restrict(f, S) == [x \in S |-> f[x]]

getQueueIdByName(e, name) ==
    LET q == IdOf(QueueNames, name) IN IF q \in DOMAIN e.queues THEN q ELSE InvalidId

getClientIdByName(e, name) ==
    LET c == IdOf(ClientNames, name) IN IF c \in DOMAIN e.clients THEN c ELSE InvalidId

getFlowIdByName(e, name) ==
    LET f == IdOf(FlowNames, name) IN IF f \in DOMAIN e.flows THEN f ELSE InvalidId

NC_addQueue(e, queueInfo) ==
    LET q == IdOf(QueueNames, queueInfo.name)
    IN [e EXCEPT !.queues = (q :> [name |-> queueInfo.name,
                                   bandwidth |-> RInt(queueInfo.bandwidth),
                                   flows |-> <<>>]) @@ e.queues]

PointSlope(x, y, slope) == [x |-> x, y |-> y, slope |-> slope]

yIntercept(x, y, slope) == RSub(y, RMul(slope, x))

ZeroArrivalCurve == [r |-> RInt(0), b |-> RInt(0)]

deserializeCurve(a) ==
    [i \in DOMAIN a.arr |-> PointSlope(RInt(a.arr[i].x), RInt(a.arr[i].y), RInt(a.arr[i].slope))]

DNC_initFlow(flowInfo, clientId) ==
    [name |-> flowInfo.name,
     clientId |-> clientId,
     queueIds |-> [k \in DOMAIN flowInfo.queues.arr |-> IdOf(QueueNames, flowInfo.queues.arr[k])],
     priority |-> 0,
     latency |-> RInt(0),
     ignoreLatency |-> FALSE,
     arrivalCurve |-> <<PointSlope(RInt(0), RInt(0), Inf)>> \o deserializeCurve(flowInfo.arrivalInfo),
     shaperCurve |-> ZeroArrivalCurve]

\* the FlowIndex entries that flows i.. of a new client append to queue q
RECURSIVE newQueueEntries(_, _, _, _)
newQueueEntries(q, fids, recs, i) ==
    IF i > Len(fids) THEN <<>>
    ELSE LET qs == recs[i].queueIds
             hit == SelectSeq([k \in DOMAIN qs |-> [flowId |-> fids[i], index |-> k - 1, q |-> qs[k]]],
                              LAMBDA x : x.q = q)
         IN [k \in DOMAIN hit |-> [flowId |-> hit[k].flowId, index |-> hit[k].index]]
            \o newQueueEntries(q, fids, recs, i + 1)

DNC_addClient(e, clientInfo) ==
    LET cid == IdOf(ClientNames, clientInfo.name)
        fl == clientInfo.flows.arr
        fids == [i \in DOMAIN fl |-> IdOf(FlowNames, fl[i].name)]
        recs == [i \in DOMAIN fl |-> DNC_initFlow(fl[i], cid)]
        newFlows == [f \in Range(fids) |-> recs[CHOOSE i \in DOMAIN fl : fids[i] = f]]
    IN [e EXCEPT
          !.clients = (cid :> [name |-> clientInfo.name, SLO |-> RInt(clientInfo.SLO),
                               flowIds |-> fids, latency |-> RInt(0)]) @@ e.clients,
          !.flows = newFlows @@ e.flows,
          !.queues = [q \in DOMAIN e.queues |->
                        [e.queues[q] EXCEPT !.flows = @ \o newQueueEntries(q, fids, recs, 1)]]]

NC_delClient(e, clientId) ==
    LET gone == Range(e.clients[clientId].flowIds)
    IN [e EXCEPT
          !.clients = Restrict(e.clients, (DOMAIN e.clients) \ {clientId}),
          !.flows = Restrict(e.flows, (DOMAIN e.flows) \ gone),
          !.queues = [q \in DOMAIN e.queues |->
                        [e.queues[q] EXCEPT !.flows = SelectSeq(@, LAMBDA x : x.flowId \notin gone)]]]

ClientQueueIds(e, clientId) ==
    UNION { Range(e.flows[f].queueIds) : f \in Range(e.clients[clientId].flowIds) }

WorkloadCompactor_addClient(e, clientInfo) ==
    LET e1 == DNC_addClient(e, clientInfo)
        cid == IdOf(ClientNames, clientInfo.name)
    IN [e1 EXCEPT !.affected = @ \cup ClientQueueIds(e1, cid)]

\* a variant that does not mark the queues of the deleted client
WorkloadCompactor_delClient_unmarked(e, clientId) == NC_delClient(e, clientId)

WorkloadCompactor_delClient(e, clientId) ==
    NC_delClient([e EXCEPT !.affected = @ \cup ClientQueueIds(e, clientId)], clientId)

(***************************************************************************)
(* DNC: curves, operators and the latency analysis.                        *)
(***************************************************************************)
RECURSIVE calcLatencyFrom(_, _, _, _, _)
calcLatencyFrom(arrivalCurve, serviceCurve, arrivalIndex, serviceIndex, maxLatency) ==
    IF arrivalIndex > Len(arrivalCurve) /\ serviceIndex > Len(serviceCurve) THEN maxLatency
    ELSE LET arrivalY == IF arrivalIndex <= Len(arrivalCurve) THEN arrivalCurve[arrivalIndex].y ELSE Inf
             serviceY == IF serviceIndex <= Len(serviceCurve) THEN serviceCurve[serviceIndex].y ELSE Inf
             up(latency) == IF RGt(latency, maxLatency) THEN latency ELSE maxLatency
         IN IF RLt(arrivalY, serviceY)
            THEN LET arrivalPoint == arrivalCurve[arrivalIndex]
                     servicePoint == serviceCurve[serviceIndex - 1]
                     deltaX == RDiv(RSub(arrivalPoint.y, servicePoint.y), servicePoint.slope)
                 IN calcLatencyFrom(arrivalCurve, serviceCurve, arrivalIndex + 1, serviceIndex,
                                    up(RSub(RAdd(servicePoint.x, deltaX), arrivalPoint.x)))
            ELSE IF RGt(arrivalY, serviceY)
            THEN LET arrivalPoint == arrivalCurve[arrivalIndex - 1]
                     servicePoint == serviceCurve[serviceIndex]
                     deltaX == RDiv(RSub(servicePoint.y, arrivalPoint.y), arrivalPoint.slope)
                 IN calcLatencyFrom(arrivalCurve, serviceCurve, arrivalIndex, serviceIndex + 1,
                                    up(RSub(servicePoint.x, RAdd(arrivalPoint.x, deltaX))))
            ELSE calcLatencyFrom(arrivalCurve, serviceCurve, arrivalIndex + 1, serviceIndex + 1,
                                 up(RSub(serviceCurve[serviceIndex].x, arrivalCurve[arrivalIndex].x)))

calcLatency(arrivalCurve, serviceCurve) ==
    calcLatencyFrom(arrivalCurve, serviceCurve, 1, 1, RInt(0))

calcShaperLatency(arrivalCurve, shaperCurve) ==
    calcLatency(arrivalCurve,
                <<PointSlope(RInt(0), RInt(0), Inf),
                  PointSlope(RInt(0), shaperCurve.b, shaperCurve.r)>>)

ConstantServiceCurve(q) == [R |-> q.bandwidth, T |-> RInt(0)]

AggregateArrivalCurve(A, B) == [r |-> RAdd(A.r, B.r), b |-> RAdd(A.b, B.b)]

LeftoverServiceCurve(A, S) ==
    LET R == RSub(S.R, A.r)
    IN [R |-> R, T |-> RAdd(S.T, RDiv(RAdd(A.b, RMul(A.r, S.T)), R))]

DNCLatencyBound(A, S) == IF RGt(A.r, S.R) THEN Inf ELSE RAdd(S.T, RDiv(A.b, S.R))

\* the one-hop branch: the loop over firstQueue->flows from entry i on
RECURSIVE aggregateOneHopFrom(_, _, _, _, _, _)
aggregateOneHopFrom(e, flow, entries, i, arrivalCurve, serviceCurve) ==
    IF i > Len(entries) THEN DNCLatencyBound(arrivalCurve, serviceCurve)
    ELSE LET f == e.flows[entries[i].flowId]
         IN IF f.priority > flow.priority
            THEN aggregateOneHopFrom(e, flow, entries, i + 1, arrivalCurve, serviceCurve)
            ELSE IF f.priority = flow.priority
            THEN aggregateOneHopFrom(e, flow, entries, i + 1,
                                     AggregateArrivalCurve(f.shaperCurve, arrivalCurve), serviceCurve)
            ELSE aggregateOneHopFrom(e, flow, entries, i + 1, arrivalCurve,
                                     LeftoverServiceCurve(f.shaperCurve, serviceCurve))

ConvolutionServiceCurve(S, T) == [R |-> RMin(S.R, T.R), T |-> RAdd(S.T, T.T)]

OutputArrivalCurve(A, S) == [r |-> A.r, b |-> RAdd(A.b, RMul(A.r, S.T))]

\* a loop that takes the leftover of a service curve after each of the
\* arrival curves from the i-th on
RECURSIVE leftoverAll(_, _, _)
leftoverAll(curves, i, serviceCurve) ==
    IF i > Len(curves) THEN serviceCurve
    ELSE leftoverAll(curves, i + 1, LeftoverServiceCurve(curves[i], serviceCurve))

\* a loop that aggregates the arrival curves from the i-th on
RECURSIVE aggregateAll(_, _, _)
aggregateAll(curves, i, arrivalCurve) ==
    IF i > Len(curves) THEN arrivalCurve
    ELSE aggregateAll(curves, i + 1, AggregateArrivalCurve(curves[i], arrivalCurve))

\* the shaper curves of the flows of a queue that a loop takes, in the order
\* of the queue
shapersOf(e, entries, taken) ==
    LET sel == SelectSeq(entries, LAMBDA x : x.flowId \in taken)
    IN [k \in DOMAIN sel |-> e.flows[sel[k].flowId].shaperCurve]

\* the two-hop branch, first loop: first queue id -> priority, over the flows
\* of the second queue that come from another first queue
firstQueueIds(e, flow) ==
    LET secondQueue == e.queues[flow.queueIds[2]]
        competing == { e.flows[secondQueue.flows[i].flowId] : i \in DOMAIN secondQueue.flows }
        high == { f \in competing : f.queueIds[1] # flow.queueIds[1] /\ f.priority <= flow.priority }
    IN [q \in { f.queueIds[1] : f \in high } |->
            SetMax({ f.priority : f \in { g \in high : g.queueIds[1] = q } })]

\* the two-hop branch, second loop: the leftover service of a first queue of
\* cross traffic for the flows that go on to the second queue
firstQueueServiceCurve(e, flow, q, priority) ==
    leftoverAll(shapersOf(e, e.queues[q].flows,
                          { id \in { x.flowId : x \in Range(e.queues[q].flows) } :
                                LET f == e.flows[id] IN f.priority <= priority /\ f.queueIds[2] # flow.queueIds[2] }),
                1, ConstantServiceCurve(e.queues[q]))

firstQueueArrivalCurve(e, flow, q, priority) ==
    aggregateAll(shapersOf(e, e.queues[q].flows,
                           { id \in { x.flowId : x \in Range(e.queues[q].flows) } :
                                 LET f == e.flows[id] IN f.priority <= priority /\ f.queueIds[2] = flow.queueIds[2] }),
                 1, ZeroArrivalCurve)

\* the leftover service of the second queue, the first queues taken in the
\* order of the map
secondQueueServiceCurve(e, flow) ==
    LET ids == firstQueueIds(e, flow)
        order == SortedSeq(DOMAIN ids)
        output(q) == OutputArrivalCurve(firstQueueArrivalCurve(e, flow, q, ids[q]),
                                        firstQueueServiceCurve(e, flow, q, ids[q]))
    IN leftoverAll([k \in DOMAIN order |-> output(order[k])], 1,
                   ConstantServiceCurve(e.queues[flow.queueIds[2]]))

\* the two-hop branch, third loop
serviceCurveForConvolution(e, flow) ==
    leftoverAll(shapersOf(e, e.queues[flow.queueIds[1]].flows,
                          { id \in { x.flowId : x \in Range(e.queues[flow.queueIds[1]].flows) } :
                                LET f == e.flows[id] IN f.priority <= flow.priority /\ f.queueIds[2] # flow.queueIds[2] }),
                1, ConstantServiceCurve(e.queues[flow.queueIds[1]]))

finalService(e, flow) ==
    LET shareArrivalCurve ==
            aggregateAll(shapersOf(e, e.queues[flow.queueIds[1]].flows,
                                   { id \in { x.flowId : x \in Range(e.queues[flow.queueIds[1]].flows) } :
                                         LET f == e.flows[id] IN f.priority < flow.priority /\ f.queueIds[2] = flow.queueIds[2] }),
                         1, ZeroArrivalCurve)
    IN LeftoverServiceCurve(shareArrivalCurve,
                            ConvolutionServiceCurve(serviceCurveForConvolution(e, flow),
                                                    secondQueueServiceCurve(e, flow)))

aggregateTwoHops(e, flow) ==
    LET arrivalCurve ==
            aggregateAll(shapersOf(e, e.queues[flow.queueIds[1]].flows,
                                   { id \in { x.flowId : x \in Range(e.queues[flow.queueIds[1]].flows) } :
                                         LET f == e.flows[id] IN f.priority = flow.priority /\ f.queueIds[2] = flow.queueIds[2] }),
                         1, ZeroArrivalCurve)
    IN DNCLatencyBound(arrivalCurve, finalService(e, flow))

aggregateAnalysisTwoHop(e, flow) ==
    IF Len(flow.queueIds) = 1
    THEN aggregateOneHopFrom(e, flow, e.queues[flow.queueIds[1]].flows, 1, ZeroArrivalCurve,
                             ConstantServiceCurve(e.queues[flow.queueIds[1]]))
    ELSE aggregateTwoHops(e, flow)

\* DNC::calcArrivalCurveAtQueue and DNC::calcServiceCurveAtQueue; index
\* counts the hops of the flow from 0
RECURSIVE calcArrivalCurveAtQueue(_, _, _), calcServiceCurveAtQueue(_, _, _)
calcArrivalCurveAtQueue(e, flowId, index) ==
    IF index = 0 THEN e.flows[flowId].shaperCurve
    ELSE OutputArrivalCurve(calcArrivalCurveAtQueue(e, flowId, index - 1),
                            calcServiceCurveAtQueue(e, flowId, index - 1))

calcServiceCurveAtQueue(e, flowId, index) ==
    LET q == e.queues[e.flows[flowId].queueIds[index + 1]]
        sel == SelectSeq(q.flows, LAMBDA it : /\ e.flows[it.flowId].priority <= e.flows[flowId].priority
                                              /\ it.flowId # flowId)
    IN leftoverAll([k \in DOMAIN sel |-> calcArrivalCurveAtQueue(e, sel[k].flowId, sel[k].index)],
                   1, ConstantServiceCurve(q))

\* DNC::hopByHopAnalysis: the loop from hop index on
RECURSIVE hopByHopFrom(_, _, _, _, _)
hopByHopFrom(e, flowId, index, arrivalCurve, latency) ==
    IF index >= Len(e.flows[flowId].queueIds) THEN latency
    ELSE hopByHopFrom(e, flowId, index + 1,
                      OutputArrivalCurve(arrivalCurve, calcServiceCurveAtQueue(e, flowId, index)),
                      RAdd(latency, DNCLatencyBound(arrivalCurve, calcServiceCurveAtQueue(e, flowId, index))))

hopByHopAnalysis(e, flowId) ==
    hopByHopFrom(e, flowId, 0, e.flows[flowId].shaperCurve, RInt(0))

\* DNC::calcFlowLatency of a DNC made with the given algorithm
calcFlowLatency(e, algorithm, flowId) ==
    LET f == e.flows[flowId]
        queueLatency == IF algorithm = "DNC_SIMPLE_ALGORITHM_AGGREGATE"
                        THEN aggregateAnalysisTwoHop(e, f)
                        ELSE hopByHopAnalysis(e, flowId)
    IN IF f.ignoreLatency THEN RInt(0)
       ELSE RAdd(queueLatency, calcShaperLatency(f.arrivalCurve, f.shaperCurve))

\* the value DNC::calcFlowLatency stores in f->latency and returns
DNC_calcFlowLatency(e, flowId) ==
    LET f == e.flows[flowId]
    IN IF f.ignoreLatency THEN RInt(0)
       ELSE RAdd(aggregateAnalysisTwoHop(e, f), calcShaperLatency(f.arrivalCurve, f.shaperCurve))

(***************************************************************************)
(* WorkloadCompactor: the groups of clients, the linear program of each    *)
(* group and the lazy re-optimization.                                     *)
(***************************************************************************)
QueueClientIds(e, q) ==
    { e.flows[e.queues[q].flows[i].flowId].clientId : i \in DOMAIN e.queues[q].flows }

\* the inner while loop: pendingQueueIds is a stack whose back is popped
RECURSIVE growGroup(_, _, _, _, _)
growGroup(e, pendingQueueIds, clientGroup, remainingQueueIds, affectedQueueIds) ==
    IF pendingQueueIds = <<>>
    THEN [clientGroup |-> clientGroup, remaining |-> remainingQueueIds, affected |-> affectedQueueIds]
    ELSE LET q == pendingQueueIds[Len(pendingQueueIds)]
             cs == QueueClientIds(e, q)
             found == (UNION { ClientQueueIds(e, c) : c \in cs }) \cap remainingQueueIds
         IN growGroup(e, SubSeq(pendingQueueIds, 1, Len(pendingQueueIds) - 1) \o SetToSeq(found),
                      clientGroup \cup cs, remainingQueueIds \ found, affectedQueueIds \ found)

\* the outer while loop: one group per remaining affected queue, lowest id first
RECURSIVE clientGroupsFrom(_, _, _)
clientGroupsFrom(e, remainingQueueIds, affectedQueueIds) ==
    IF affectedQueueIds = {} THEN <<>>
    ELSE LET firstQueueId == SetMin(affectedQueueIds)
             g == growGroup(e, <<firstQueueId>>, {}, remainingQueueIds \ {firstQueueId},
                            affectedQueueIds \ {firstQueueId})
         IN <<g.clientGroup>> \o clientGroupsFrom(e, g.remaining, g.affected)

\* a variant that closes no group: the clients of each affected queue
clientGroups_direct(e) ==
    LET qs == SetToSeq(e.affected) IN [i \in DOMAIN qs |-> QueueClientIds(e, qs[i])]

clientGroups(e) == clientGroupsFrom(e, DOMAIN e.queues, e.affected)

SLOkey(e, c) == RMul(e.clients[c].SLO, Margin)

GroupSLOs(e, clientGroup) == { SLOkey(e, c) : c \in clientGroup }

\* a variant that ranks the larger SLO first
SLOPriority_reversed(e, clientGroup, c) ==
    Cardinality({ D \in GroupSLOs(e, clientGroup) : RGt(D, SLOkey(e, c)) })

\* SLOs[SLO]: the dense rank of the client's SLO among the SLOs of its group
SLOPriority(e, clientGroup, c) ==
    Cardinality({ D \in GroupSLOs(e, clientGroup) : RLt(D, SLOkey(e, c)) })

FirstQueueId(e, f) == e.flows[f].queueIds[1]

clientPath(e, c) == [i \in DOMAIN e.clients[c].flowIds |-> FirstQueueId(e, e.clients[c].flowIds[i])]

GroupPaths(e, clientGroup) == { clientPath(e, c) : c \in clientGroup }

GroupFlowIds(e, clientGroup) == UNION { Range(e.clients[c].flowIds) : c \in clientGroup }

RECURSIVE RSumOver(_, _)
RSumOver(S, g) ==
    IF S = {} THEN RInt(0)
    ELSE LET x == CHOOSE y \in S : TRUE IN RAdd(g[x], RSumOver(S \ {x}, g))

\* the first stage j of the path whose queue is q (the loop breaks there)
FirstStage(path, q) == SetMin({ j \in DOMAIN path : path[j] = q })

\* bVar >= b1, the constraint of each later segment, rVar >= r of the last one
ArrivalConstraints(v, arrivalCurve, bw) ==
    LET r(i) == RDiv(arrivalCurve[i].slope, bw)
        b(i) == RDiv(yIntercept(arrivalCurve[i].x, arrivalCurve[i].y, arrivalCurve[i].slope), bw)
    IN /\ RGe(v.b, b(2))
       /\ \A i \in 3..Len(arrivalCurve) :
             RGe(RAdd(RMul(v.r, RSub(b(i), b(i - 1))), RMul(v.b, RSub(r(i - 1), r(i)))),
                 RSub(RMul(r(i - 1), b(i)), RMul(r(i), b(i - 1))))
       /\ RGe(v.r, r(Len(arrivalCurve)))

\* sum_k r_k <= 0.999 at every first queue of the group
RConstraints(e, clientGroup, sol) ==
    \A q \in { FirstQueueId(e, f) : f \in GroupFlowIds(e, clientGroup) } :
        RLe(RSumOver({ f \in GroupFlowIds(e, clientGroup) : FirstQueueId(e, f) = q },
                     [f \in GroupFlowIds(e, clientGroup) |-> sol[f].r]),
            Margin)

\* for each SLO_i, each path and each stage j of the path:
\* [sum over k in path, SLO_k <= SLO_i of b_k / SLO_i] + [sum over k at stage j, SLO_k < SLO_i of r_k] <= 1
BConstraints(e, clientGroup, sol) ==
    LET F == GroupFlowIds(e, clientGroup)
        key(f) == SLOkey(e, e.flows[f].clientId)
    IN \A D \in GroupSLOs(e, clientGroup) : \A path \in GroupPaths(e, clientGroup) :
         \A j \in DOMAIN path :
           RLe(RAdd(RSumOver({ f \in F : RGe(D, key(f)) /\ FirstQueueId(e, f) \in Range(path) },
                             [f \in F |-> RDiv(sol[f].b, D)]),
                    RSumOver({ f \in F : /\ RGt(D, key(f))
                                         /\ FirstQueueId(e, f) \in Range(path)
                                         /\ FirstStage(path, FirstQueueId(e, f)) = j },
                             [f \in F |-> sol[f].r])),
               RInt(1))

LPFeasible(e, clientGroup, sol) ==
    /\ \A f \in GroupFlowIds(e, clientGroup) :
          /\ RGe(sol[f].r, RInt(0)) /\ RLe(sol[f].r, Margin)
          /\ RGe(sol[f].b, RInt(0)) /\ RLe(sol[f].b, SLOkey(e, e.flows[f].clientId))
          /\ ArrivalConstraints(sol[f], e.flows[f].arrivalCurve,
                                e.queues[FirstQueueId(e, f)].bandwidth)
    /\ RConstraints(e, clientGroup, sol)
    /\ BConstraints(e, clientGroup, sol)

(***************************************************************************)
(* The solver.  Every <= constraint of the program has non-negative        *)
(* coefficients, so the program is feasible exactly when the least point   *)
(* of the arrival constraints is feasible; for the one-segment arrival     *)
(* curves of the catalogue that point is (r1, b1), and it minimizes the    *)
(* objective.  The burst is not in the objective: the solver may return    *)
(* any feasible burst, the model takes the least.                          *)
(***************************************************************************)
LPLeastPoint(e, clientGroup) ==
    [f \in GroupFlowIds(e, clientGroup) |->
        LET c == e.flows[f].arrivalCurve
            p == c[Len(c)]
            bw == e.queues[FirstQueueId(e, f)].bandwidth
        IN [r |-> RDiv(p.slope, bw), b |-> RDiv(yIntercept(p.x, p.y, p.slope), bw)]]

solve(e, clientGroup) == LPFeasible(e, clientGroup, LPLeastPoint(e, clientGroup))

\* the body of the loop over the groups: solve and write the result back
optimizeGroup(e, clientGroup) ==
    LET sol == LPLeastPoint(e, clientGroup)
        ok == solve(e, clientGroup)
        F == GroupFlowIds(e, clientGroup)
    IN [e EXCEPT !.flows =
          [f \in DOMAIN e.flows |->
             IF f \notin F THEN e.flows[f]
             ELSE LET bw == e.queues[FirstQueueId(e, f)].bandwidth
                  IN [e.flows[f] EXCEPT
                        !.shaperCurve = IF ok THEN [r |-> RMul(sol[f].r, bw), b |-> RMul(sol[f].b, bw)]
                                        ELSE ZeroArrivalCurve,
                        !.priority = SLOPriority(e, clientGroup, e.flows[f].clientId)]]]

RECURSIVE optimizeGroups(_, _, _)
optimizeGroups(e, groups, i) ==
    IF i > Len(groups) THEN e ELSE optimizeGroups(optimizeGroup(e, groups[i]), groups, i + 1)

calcShaperParameters(e) == [optimizeGroups(e, clientGroups(e), 1) EXCEPT !.affected = {}]

\* a variant that never re-optimizes
WorkloadCompactor_calcFlowLatency_stale(e, flowId) ==
    [e EXCEPT !.flows[flowId].latency = DNC_calcFlowLatency(e, flowId)]

\* the engine after WorkloadCompactor::calcFlowLatency(flowId)
WorkloadCompactor_calcFlowLatency(e, flowId) ==
    LET store(e1) == [e1 EXCEPT !.flows[flowId].latency = DNC_calcFlowLatency(e1, flowId)]
    IN store(IF e.affected # {} THEN calcShaperParameters(e) ELSE e)

\* NC::calcClientLatency: every flow of the client in turn, the client's
\* latency is the sum of the latencies of its flows
RECURSIVE calcClientFlowsFrom(_, _, _)
calcClientFlowsFrom(e, flowIds, i) ==
    IF i > Len(flowIds) THEN e
    ELSE calcClientFlowsFrom(WorkloadCompactor_calcFlowLatency(e, flowIds[i]), flowIds, i + 1)

NC_calcClientLatency(e, clientId) ==
    LET sum(e1) ==
            LET fids == e1.clients[clientId].flowIds
            IN [e1 EXCEPT !.clients[clientId].latency =
                             RSumSeq([i \in DOMAIN fids |-> e1.flows[fids[i]].latency])]
    IN sum(calcClientFlowsFrom(e, e.clients[clientId].flowIds, 1))

(***************************************************************************)
(* AdmissionController: validation of the input.                           *)
(***************************************************************************)
checkFlowInfo(e, flowNames, flowInfo) ==
    IF ~isMember(flowInfo, "name") THEN [status |-> "ERR_MISSING_ARGUMENT", flowNames |-> flowNames]
    ELSE IF getFlowIdByName(e, flowInfo.name) # InvalidId
    THEN [status |-> "ERR_FLOW_NAME_IN_USE", flowNames |-> flowNames]
    ELSE IF flowInfo.name \in flowNames
    THEN [status |-> "ERR_FLOW_NAME_IN_USE", flowNames |-> flowNames]
    ELSE LET names == flowNames \cup {flowInfo.name}
         IN IF ~isMember(flowInfo, "queues") THEN [status |-> "ERR_MISSING_ARGUMENT", flowNames |-> names]
            ELSE IF ~isArray(flowInfo.queues) THEN [status |-> "ERR_INVALID_ARGUMENT", flowNames |-> names]
            ELSE IF \E k \in DOMAIN flowInfo.queues.arr :
                       getQueueIdByName(e, flowInfo.queues.arr[k]) = InvalidId
            THEN [status |-> "ERR_QUEUE_NAME_NONEXISTENT", flowNames |-> names]
            ELSE IF ~isMember(flowInfo, "arrivalInfo")
            THEN [status |-> "ERR_MISSING_ARGUMENT", flowNames |-> names]
            ELSE [status |-> "SUCCESS", flowNames |-> names]

\* the loop of checkClientInfo over the client's flows
RECURSIVE checkFlowInfosFrom(_, _, _, _)
checkFlowInfosFrom(e, flowNames, clientFlows, flowIndex) ==
    IF flowIndex > Len(clientFlows) THEN [status |-> "SUCCESS", flowNames |-> flowNames]
    ELSE LET r == checkFlowInfo(e, flowNames, clientFlows[flowIndex])
         IN IF r.status # "SUCCESS" THEN r
            ELSE checkFlowInfosFrom(e, r.flowNames, clientFlows, flowIndex + 1)

\* a validation that accepts any SLO
checkClientInfo_anySLO(e, clientNames, flowNames, clientInfo) ==
    LET res(st, cn, fn) == [status |-> st, clientNames |-> cn, flowNames |-> fn]
    IN IF ~isMember(clientInfo, "name") THEN res("ERR_MISSING_ARGUMENT", clientNames, flowNames)
       ELSE IF getClientIdByName(e, clientInfo.name) # InvalidId
       THEN res("ERR_CLIENT_NAME_IN_USE", clientNames, flowNames)
       ELSE IF clientInfo.name \in clientNames
       THEN res("ERR_CLIENT_NAME_IN_USE", clientNames, flowNames)
       ELSE LET names == clientNames \cup {clientInfo.name}
            IN IF ~isMember(clientInfo, "SLO") THEN res("ERR_MISSING_ARGUMENT", names, flowNames)
               ELSE IF /\ isMember(clientInfo, "SLOpercentile")
                       /\ ~(0 < clientInfo.SLOpercentile /\ clientInfo.SLOpercentile < 100)
               THEN res("ERR_INVALID_ARGUMENT", names, flowNames)
               ELSE IF ~isMember(clientInfo, "flows") THEN res("ERR_MISSING_ARGUMENT", names, flowNames)
               ELSE IF ~isArray(clientInfo.flows) THEN res("ERR_INVALID_ARGUMENT", names, flowNames)
               ELSE LET r == checkFlowInfosFrom(e, flowNames, clientInfo.flows.arr, 1)
                    IN res(r.status, names, r.flowNames)

checkClientInfo(e, clientNames, flowNames, clientInfo) ==
    LET res(st, cn, fn) == [status |-> st, clientNames |-> cn, flowNames |-> fn]
    IN IF ~isMember(clientInfo, "name") THEN res("ERR_MISSING_ARGUMENT", clientNames, flowNames)
       ELSE IF getClientIdByName(e, clientInfo.name) # InvalidId
       THEN res("ERR_CLIENT_NAME_IN_USE", clientNames, flowNames)
       ELSE IF clientInfo.name \in clientNames
       THEN res("ERR_CLIENT_NAME_IN_USE", clientNames, flowNames)
       ELSE LET names == clientNames \cup {clientInfo.name}
            IN IF ~isMember(clientInfo, "SLO") THEN res("ERR_MISSING_ARGUMENT", names, flowNames)
               ELSE IF clientInfo.SLO <= 0 THEN res("ERR_INVALID_ARGUMENT", names, flowNames)
               ELSE IF /\ isMember(clientInfo, "SLOpercentile")
                       /\ ~(0 < clientInfo.SLOpercentile /\ clientInfo.SLOpercentile < 100)
               THEN res("ERR_INVALID_ARGUMENT", names, flowNames)
               ELSE IF ~isMember(clientInfo, "flows") THEN res("ERR_MISSING_ARGUMENT", names, flowNames)
               ELSE IF ~isArray(clientInfo.flows) THEN res("ERR_INVALID_ARGUMENT", names, flowNames)
               ELSE LET r == checkFlowInfosFrom(e, flowNames, clientInfo.flows.arr, 1)
                    IN res(r.status, names, r.flowNames)

RECURSIVE checkClientInfosFrom(_, _, _, _, _)
checkClientInfosFrom(e, clientNames, flowNames, infos, i) ==
    IF i > Len(infos) THEN "SUCCESS"
    ELSE LET r == checkClientInfo(e, clientNames, flowNames, infos[i])
         IN IF r.status # "SUCCESS" THEN r.status
            ELSE checkClientInfosFrom(e, r.clientNames, r.flowNames, infos, i + 1)

checkClientInfos(e, clientInfos) ==
    IF ~isArray(clientInfos) THEN "ERR_INVALID_ARGUMENT"
    ELSE checkClientInfosFrom(e, {}, {}, clientInfos.arr, 1)

(***************************************************************************)
(* AdmissionController: the latency check and the overload check.          *)
(***************************************************************************)
RECURSIVE markAffectedFlows(_, _, _, _), markQueueFlowsFrom(_, _, _, _, _)
\* a variant that also marks the flows of higher priority
markAffectedFlows_anyPriority(e, affectedFlows, fi, priority) ==
    IF fi \in affectedFlows THEN affectedFlows
    ELSE markQueueFlowsFrom(e, affectedFlows \cup {fi}, e.flows[fi.flowId], fi.index + 1, 1)

markAffectedFlows(e, affectedFlows, fi, priority) ==
    LET f == e.flows[fi.flowId]
    IN IF f.priority < priority THEN affectedFlows
       ELSE IF fi \in affectedFlows THEN affectedFlows
       ELSE markQueueFlowsFrom(e, affectedFlows \cup {fi}, f, fi.index + 1, 1)

\* the two nested loops of markAffectedFlows, at queue index of f and entry k of that queue
markQueueFlowsFrom(e, affectedFlows, f, index, k) ==
    IF index > Len(f.queueIds) THEN affectedFlows
    ELSE LET q == e.queues[f.queueIds[index]]
         IN IF k > Len(q.flows) THEN markQueueFlowsFrom(e, affectedFlows, f, index + 1, 1)
            ELSE markQueueFlowsFrom(e, markAffectedFlows(e, affectedFlows, q.flows[k], f.priority),
                                    f, index, k + 1)

RECURSIVE markClientFlowsFrom(_, _, _, _)
markClientFlowsFrom(e, affectedFlows, flowIds, i) ==
    IF i > Len(flowIds) THEN affectedFlows
    ELSE markClientFlowsFrom(e, markAffectedFlows(e, affectedFlows, [flowId |-> flowIds[i], index |-> 0], 0),
                             flowIds, i + 1)

\* the first loop of checkLatency, over the added clients in id order
RECURSIVE checkAddedFrom(_, _, _, _)
checkAddedFrom(e, ids, i, affectedFlows) ==
    IF i > Len(ids) THEN [e |-> e, admitted |-> TRUE, affectedFlows |-> affectedFlows]
    ELSE LET check(e1) ==
                 LET c == e1.clients[ids[i]]
                 IN IF RGt(c.latency, c.SLO)
                    THEN [e |-> e1, admitted |-> FALSE, affectedFlows |-> affectedFlows]
                    ELSE checkAddedFrom(e1, ids, i + 1,
                                        markClientFlowsFrom(e1, affectedFlows, c.flowIds, 1))
         IN check(NC_calcClientLatency(e, ids[i]))

\* the second loop of checkLatency, over the affected clients in id order
RECURSIVE checkAffectedFrom(_, _, _, _)
checkAffectedFrom(e, ids, i, clientIds) ==
    IF i > Len(ids) THEN [e |-> e, admitted |-> TRUE]
    ELSE IF ids[i] \in clientIds THEN checkAffectedFrom(e, ids, i + 1, clientIds)
    ELSE LET check(e1) ==
                 LET c == e1.clients[ids[i]]
                 IN IF RGt(c.latency, c.SLO) THEN [e |-> e1, admitted |-> FALSE]
                    ELSE checkAffectedFrom(e1, ids, i + 1, clientIds)
         IN check(NC_calcClientLatency(e, ids[i]))

checkLatency(e, clientIds) ==
    LET affected(a) ==
            IF ~a.admitted THEN [e |-> a.e, admitted |-> FALSE]
            ELSE checkAffectedFrom(a.e, SetToSeq({ a.e.flows[fi.flowId].clientId : fi \in a.affectedFlows }),
                                   1, clientIds)
    IN affected(checkAddedFrom(e, SetToSeq(clientIds), 1, {}))

isAdmitted(clientInfo) == isMember(clientInfo, "admitted") /\ clientInfo.admitted

\* the (flow info, queue id) pairs checkOverload visits
overloadVisits(e, clientInfos) ==
    UNION { UNION { { <<i, j, k>> : k \in DOMAIN clientInfos.arr[i].flows.arr[j].queues.arr } :
                    j \in DOMAIN clientInfos.arr[i].flows.arr } :
            i \in { n \in DOMAIN clientInfos.arr : ~isAdmitted(clientInfos.arr[n]) } }

\* a variant with the margin 0.999 of the optimizer
checkOverload_margin(e, clientInfos) ==
    LET queueOf(v) == e.queues[getQueueIdByName(e, clientInfos.arr[v[1]].flows.arr[v[2]].queues.arr[v[3]])]
        arrival(v) == deserializeCurve(clientInfos.arr[v[1]].flows.arr[v[2]].arrivalInfo)
        shapers(q) == [n \in DOMAIN q.flows |-> e.flows[q.flows[n].flowId].shaperCurve]
        load(v) == RAdd(arrival(v)[Len(arrival(v))].slope,
                        RSumSeq([n \in DOMAIN queueOf(v).flows |-> shapers(queueOf(v))[n].r]))
    IN IF \E v \in overloadVisits(e, clientInfos) : \E n \in DOMAIN queueOf(v).flows :
             shapers(queueOf(v))[n] = ZeroArrivalCurve
       THEN FALSE
       ELSE \E v \in overloadVisits(e, clientInfos) :
               RGt(load(v), RMul(Margin, queueOf(v).bandwidth))

checkOverload(e, clientInfos) ==
    LET queueOf(v) == e.queues[getQueueIdByName(e, clientInfos.arr[v[1]].flows.arr[v[2]].queues.arr[v[3]])]
        arrival(v) == deserializeCurve(clientInfos.arr[v[1]].flows.arr[v[2]].arrivalInfo)
        shapers(q) == [n \in DOMAIN q.flows |-> e.flows[q.flows[n].flowId].shaperCurve]
        load(v) == RAdd(arrival(v)[Len(arrival(v))].slope,
                        RSumSeq([n \in DOMAIN queueOf(v).flows |-> shapers(queueOf(v))[n].r]))
    IN IF \E v \in overloadVisits(e, clientInfos) : \E n \in DOMAIN queueOf(v).flows :
             shapers(queueOf(v))[n] = ZeroArrivalCurve
       THEN FALSE
       ELSE \E v \in overloadVisits(e, clientInfos) :
               RGt(load(v), RMul(OverloadMargin, queueOf(v).bandwidth))

(***************************************************************************)
(* AdmissionController: the RPC handlers.  A handler maps the state        *)
(* (engine, clientInfoStore, parameters held by the enforcers) and its     *)
(* argument to the new state and the result.                               *)
(***************************************************************************)
stringToJson(arg) == arg.ok

RECURSIVE addClientsFrom(_, _, _)
addClientsFrom(e, infos, i) ==
    IF i > Len(infos) THEN e
    ELSE addClientsFrom(WorkloadCompactor_addClient(e, infos[i]), infos, i + 1)

RECURSIVE delClientsFrom(_, _, _)
delClientsFrom(e, ids, i) ==
    IF i > Len(ids) THEN e
    ELSE delClientsFrom(WorkloadCompactor_delClient(e, ids[i]), ids, i + 1)

\* setFlowParameters: what the admission service reads off the engine for the enforcer
setFlowParameters(flowInfo, e) ==
    LET f == e.flows[getFlowIdByName(e, flowInfo.name)]
    IN [priority |-> f.priority,
        rateLimiters |-> <<[rate |-> f.shaperCurve.r, burst |-> f.shaperCurve.b]>>]

hasStorageEnforcer(flowInfo) ==
    /\ isMember(flowInfo, "enforcerType")
    /\ flowInfo.enforcerType = "storage"
    /\ isMember(flowInfo, "enforcerAddr")
    /\ isMember(flowInfo, "clientAddr")

\* the flows of a list of client infos that name a storage enforcer
enforcedFlows(infos) ==
    UNION { { infos[i].flows.arr[j] : j \in { k \in DOMAIN infos[i].flows.arr :
                                               hasStorageEnforcer(infos[i].flows.arr[k]) } } :
            i \in DOMAIN infos }

\* the parameters an enforcer holds for a client it was told nothing about
DefaultParameters == [priority |-> 0, rateLimiters |-> <<>>]

\* what becomes of a call to an enforcer: clnt_create and the update succeed,
\* the update returns an error, or clnt_create returns NULL
Deliveries == {"delivered", "failed", "unreachable"}

\* storage_clnt::storage_clnt calls exit(-1) when the enforcer cannot be reached
exits(infos, delivery) == enforcedFlows(infos) # {} /\ delivery = "unreachable"

\* storage_clnt::updateClient: a failed update is reported and nothing else
updateClient(enf, updated, delivery) == IF delivery = "delivered" THEN updated ELSE enf

updateEnforcerClients(enf, e, infos) ==
    LET fl == enforcedFlows(infos)
        addrs == { f.clientAddr : f \in fl }
    IN [a \in addrs |-> setFlowParameters(CHOOSE f \in fl : f.clientAddr = a, e)] @@ enf

removeEnforcerClients(enf, infos) ==
    LET addrs == { f.clientAddr : f \in enforcedFlows(infos) }
    IN [a \in addrs |-> DefaultParameters] @@ enf

\* the static result of the handler when the process exits: it is never sent
NoReply == [status |-> "SUCCESS", admitted |-> TRUE]

admitOverride(infos) == \A i \in DOMAIN infos : isAdmitted(infos[i])

\* a rollback that deletes only the first of the added clients
deleteAddedClients_first(e, clientIds) == delClientsFrom(e, <<SetMin(clientIds)>>, 1)

\* the rollback of a rejected batch: every added client is deleted, in id order
deleteAddedClients(e, clientIds) == delClientsFrom(e, SetToSeq(clientIds), 1)

\* the handler up to its decision: validation, fast first fit, the clients
\* added to the engine, the latency check
add_clients_check(e, arg, fastFirstFit) ==
    LET early(status) == [e |-> e, infos |-> <<>>, status |-> status, admitted |-> FALSE,
                          added |-> FALSE]
    IN IF ~stringToJson(arg) THEN early("ERR_INVALID_ARGUMENT")
       ELSE LET status == checkClientInfos(e, arg.json)
            IN IF status # "SUCCESS" THEN early(status)
               ELSE IF fastFirstFit /\ checkOverload(e, arg.json) THEN early("SUCCESS")
               ELSE LET infos == arg.json.arr
                        clientIds == { IdOf(ClientNames, infos[i].name) : i \in DOMAIN infos }
                        decided(chk) == [e |-> chk.e, infos |-> infos, status |-> "SUCCESS",
                                         admitted |-> chk.admitted, added |-> TRUE]
                    IN decided(IF admitOverride(infos) THEN [e |-> addClientsFrom(e, infos, 1), admitted |-> TRUE]
                               ELSE checkLatency(addClientsFrom(e, infos, 1), clientIds))

\* the handler from its decision on: the parameters are sent to the enforcers
\* of an admitted batch, the clients of a rejected batch are deleted
add_clients_reply(d, store, enf, delivery) ==
    LET infos == d.infos
        clientIds == { IdOf(ClientNames, infos[i].name) : i \in DOMAIN infos }
        stored == [c \in clientIds |->
                     infos[CHOOSE i \in DOMAIN infos : IdOf(ClientNames, infos[i].name) = c]]
                  @@ store
        out(e1, store1, enf1) ==
            [nc |-> e1, store |-> store1, enforcer |-> enf1,
             result |-> [status |-> d.status, admitted |-> d.admitted], running |-> TRUE]
    IN IF ~d.added THEN out(d.e, store, enf)
       ELSE IF d.admitted /\ exits(infos, delivery)
       THEN [nc |-> d.e, store |-> stored, enforcer |-> enf, result |-> NoReply, running |-> FALSE]
       ELSE IF d.admitted
       THEN out(d.e, stored, updateClient(enf, updateEnforcerClients(enf, d.e, infos), delivery))
       ELSE out(deleteAddedClients(d.e, clientIds), Restrict(stored, (DOMAIN stored) \ clientIds), enf)

admission_controller_add_clients_svc(e, store, enf, arg, fastFirstFit, delivery) ==
    add_clients_reply(add_clients_check(e, arg, fastFirstFit), store, enf, delivery)

admission_controller_del_client_svc(e, store, enf, name, delivery) ==
    LET clientId == getClientIdByName(e, name)
    IN IF clientId = InvalidId
       THEN [nc |-> e, store |-> store, enforcer |-> enf,
             result |-> [status |-> "ERR_CLIENT_NAME_NONEXISTENT"], running |-> TRUE]
       ELSE IF exits(<<store[clientId]>>, delivery)
       THEN [nc |-> e, store |-> store, enforcer |-> enf,
             result |-> [status |-> "SUCCESS"], running |-> FALSE]
       ELSE [nc |-> WorkloadCompactor_delClient(e, clientId),
             store |-> Restrict(store, (DOMAIN store) \ {clientId}),
             enforcer |-> updateClient(enf, removeEnforcerClients(enf, <<store[clientId]>>), delivery),
             result |-> [status |-> "SUCCESS"], running |-> TRUE]

admission_controller_add_queue_svc(e, arg) ==
    IF ~stringToJson(arg) THEN [nc |-> e, result |-> [status |-> "ERR_INVALID_ARGUMENT"]]
    ELSE IF ~isMember(arg.json, "name") THEN [nc |-> e, result |-> [status |-> "ERR_MISSING_ARGUMENT"]]
    ELSE IF getQueueIdByName(e, arg.json.name) # InvalidId
    THEN [nc |-> e, result |-> [status |-> "ERR_QUEUE_NAME_IN_USE"]]
    ELSE IF ~isMember(arg.json, "bandwidth") THEN [nc |-> e, result |-> [status |-> "ERR_MISSING_ARGUMENT"]]
    ELSE IF arg.json.bandwidth <= 0 THEN [nc |-> e, result |-> [status |-> "ERR_INVALID_ARGUMENT"]]
    ELSE [nc |-> NC_addQueue(e, arg.json), result |-> [status |-> "SUCCESS"]]

(***************************************************************************)
(* The inputs of the admission service.                                    *)
(***************************************************************************)
MaxBatch == 2

\* the number of calls the service is followed for
MaxCalls == 4

NumClients == Len(ClientNames)

\* the clients whose info is also submitted carrying admitted = true
FlaggedClients == <<2>>

\* the client infos of the catalogue, plain and carrying admitted = true
ValidInfo(k) == IF k <= NumClients THEN ClientInfoOf(k)
                ELSE setMember(ClientInfoOf(FlaggedClients[k - NumClients]), "admitted", TRUE)

withFlow(clientInfo, flowInfo) == setMember(clientInfo, "flows", JArr(<<flowInfo>>))

\* one client info for each defect the validation looks for
DefectiveInfos ==
    LET c == BaseInfo
        f == c.flows.arr[1]
    IN { removeMember(c, "name"), removeMember(c, "SLO"), removeMember(c, "flows"),
         setMember(c, "flows", JStr("none")), setMember(c, "SLO", 0),
         setMember(c, "SLOpercentile", 0), setMember(c, "SLOpercentile", 100),
         withFlow(c, removeMember(f, "name")), withFlow(c, removeMember(f, "queues")),
         withFlow(c, removeMember(f, "arrivalInfo")), withFlow(c, setMember(f, "queues", JStr("Q1"))),
         withFlow(c, setMember(f, "queues", JArr(<<"Q1", "QX">>))) }

NonDecreasing(n, m) == { s \in [1..n -> 1..m] : \A i \in 1..(n - 1) : s[i] <= s[i + 1] }

ValidBatches ==
    UNION { { [i \in 1..n |-> ValidInfo(s[i])] : s \in NonDecreasing(n, NumClients + Len(FlaggedClients)) } :
            n \in 0..MaxBatch }

\* a defective info alone, or listed after valid infos (of client A)
DefectiveBatches ==
    UNION { { [i \in 1..n |-> ValidInfo(s[i])] \o <<d>> :
              s \in NonDecreasing(n, 1), d \in DefectiveInfos } :
            n \in 0..(MaxBatch - 1) }

AddClientsArgs ==
    {[ok |-> FALSE, json |-> JStr("{")], [ok |-> TRUE, json |-> JStr("clients")]}
    \cup { [ok |-> TRUE, json |-> JArr(b)] : b \in ValidBatches \cup DefectiveBatches }

AddQueueArgs ==
    { [ok |-> TRUE, json |-> QueueInfoOf(q)] : q \in DOMAIN QueueNames }
    \cup { [ok |-> FALSE, json |-> JStr("{")],
           [ok |-> TRUE, json |-> [bandwidth |-> 10]],
           [ok |-> TRUE, json |-> [name |-> "Q1"]],
           [ok |-> TRUE, json |-> [name |-> "Q1", bandwidth |-> 0]] }

DelClientArgs == Range(ClientNames) \cup {"Z"}

(***************************************************************************)
(* What a call was about, stated on its input and on the state before it   *)
(* without the handlers: recorded in acCall with every call.               *)
(***************************************************************************)
ShapelyFlow(f) ==
    /\ isMember(f, "name") /\ isMember(f, "queues") /\ isMember(f, "arrivalInfo")
    /\ isArray(f.queues)

ShapelyClient(c) ==
    /\ isMember(c, "name") /\ isMember(c, "SLO") /\ isMember(c, "flows")
    /\ isArray(c.flows)
    /\ \A j \in DOMAIN c.flows.arr : ShapelyFlow(c.flows.arr[j])

\* the batch has one of the defects a batch is to be refused for
InvalidBatch(e, arg) ==
    \/ ~arg.ok
    \/ ~isArray(arg.json)
    \/ LET infos == arg.json.arr
           flowsOf(i) == infos[i].flows.arr
       IN \/ \E i \in DOMAIN infos : ~ShapelyClient(infos[i])
          \/ \E i \in DOMAIN infos :
                \/ infos[i].SLO <= 0
                \/ /\ isMember(infos[i], "SLOpercentile")
                   /\ (infos[i].SLOpercentile <= 0 \/ infos[i].SLOpercentile >= 100)
                \/ \E c \in DOMAIN e.clients : e.clients[c].name = infos[i].name
                \/ \E i2 \in DOMAIN infos : i2 # i /\ infos[i2].name = infos[i].name
                \/ \E j \in DOMAIN flowsOf(i) :
                      \/ \E f \in DOMAIN e.flows : e.flows[f].name = flowsOf(i)[j].name
                      \/ \E i2 \in DOMAIN infos : \E j2 \in DOMAIN flowsOf(i2) :
                            <<i2, j2>> # <<i, j>> /\ flowsOf(i2)[j2].name = flowsOf(i)[j].name
                      \/ \E k \in DOMAIN flowsOf(i)[j].queues.arr :
                            \A q \in DOMAIN e.queues : e.queues[q].name # flowsOf(i)[j].queues.arr[k]

\* the number of infos of the batch listed before the first one the validation refuses
ValidPrefix(e, arg) ==
    IF ~arg.ok \/ ~isArray(arg.json) THEN 0
    ELSE Cardinality({ n \in DOMAIN arg.json.arr :
                         checkClientInfos(e, JArr(SubSeq(arg.json.arr, 1, n))) = "SUCCESS" })

ClientLatencyIn(e, c) ==
    RSumSeq([i \in DOMAIN e.clients[c].flowIds |-> DNC_calcFlowLatency(e, e.clients[c].flowIds[i])])

BatchClientIds(infos) == { IdOf(ClientNames, infos[i].name) : i \in DOMAIN infos }

\* the clients affected by the added ones, the added ones included
RECURSIVE markClientsFrom(_, _, _, _)
markClientsFrom(e, affectedFlows, ids, i) ==
    IF i > Len(ids) THEN affectedFlows
    ELSE markClientsFrom(e, markClientFlowsFrom(e, affectedFlows, e.clients[ids[i]].flowIds, 1), ids, i + 1)

AffectedClientIds(e, clientIds) ==
    { e.flows[fi.flowId].clientId : fi \in markClientsFrom(e, {}, SetToSeq(clientIds), 1) }

\* with the batch added and the shaper parameters re-optimized, every added
\* and every affected client has latency <= SLO
AllFit(e, infos) ==
    LET e2 == calcShaperParameters(addClientsFrom(e, infos, 1))
        ids == BatchClientIds(infos)
    IN \A c \in ids \cup AffectedClientIds(e2, ids) : RLe(ClientLatencyIn(e2, c), e2.clients[c].SLO)

AddClientsCall(e, arg) ==
    LET invalid == InvalidBatch(e, arg)
    IN [op |-> "addClients",
        invalid |-> invalid,
        validBefore |-> ValidPrefix(e, arg) > 0,
        batch |-> IF invalid THEN {} ELSE BatchClientIds(arg.json.arr),
        infos |-> IF invalid THEN <<>> ELSE arg.json.arr,
        override |-> ~invalid /\ admitOverride(arg.json.arr),
        enforced |-> ~invalid /\ enforcedFlows(arg.json.arr) # {},
        fits |-> ~invalid /\ AllFit(e, arg.json.arr)]

(***************************************************************************)
(* The admission service: one action for each RPC.                         *)
(***************************************************************************)
InitAC ==
    /\ nc = EmptyNC
    /\ clientInfoStore = <<>>
    /\ enforcer = [a \in Range(FlowNames) |-> DefaultParameters]
    /\ acResult = [status |-> "SUCCESS"]
    /\ acCall = [op |-> "none"]
    /\ acCalls = 0
    /\ acRunning = TRUE

Served == acRunning /\ acCalls < MaxCalls /\ acCalls' = acCalls + 1

AddClients ==
    /\ Served
    /\ \E arg \in AddClientsArgs :
        \E call \in {AddClientsCall(nc, arg)}, fastFirstFit \in BOOLEAN :
        \E d \in {add_clients_check(nc, arg, fastFirstFit)}, delivery \in Deliveries :
        \E o \in {add_clients_reply(d, clientInfoStore, enforcer, delivery)} :
           /\ acRunning' = o.running
           /\ nc' = o.nc
           /\ clientInfoStore' = o.store
           /\ enforcer' = o.enforcer
           /\ acResult' = o.result
           /\ acCall' = [fastFirstFit |-> fastFirstFit, added |-> d.added,
                         delivery |-> IF call.enforced THEN delivery ELSE "none"] @@ call
    /\ UNCHANGED <<pcVars, ssVars, lkVars, kaVars, esVars, dnVars, occVars, rvVars>>

DelClient ==
    /\ Served
    /\ \E name \in DelClientArgs, delivery \in Deliveries :
        \E o \in {admission_controller_del_client_svc(nc, clientInfoStore, enforcer, name, delivery)} :
           /\ acRunning' = o.running
           /\ nc' = o.nc
           /\ clientInfoStore' = o.store
           /\ enforcer' = o.enforcer
           /\ acResult' = o.result
           /\ acCall' = [op |-> "delClient", name |-> name]
    /\ UNCHANGED <<pcVars, ssVars, lkVars, kaVars, esVars, dnVars, occVars, rvVars>>

AddQueue ==
    /\ Served
    /\ \E arg \in AddQueueArgs :
        \E o \in {admission_controller_add_queue_svc(nc, arg)} :
           /\ nc' = o.nc
           /\ acResult' = o.result
           /\ acCall' = [op |-> "addQueue"]
           /\ UNCHANGED <<clientInfoStore, enforcer, acRunning>>
    /\ UNCHANGED <<pcVars, ssVars, lkVars, kaVars, esVars, dnVars, occVars, rvVars>>

NextAC == AddClients \/ DelClient \/ AddQueue

(***************************************************************************)
(* Properties of the admission service.                                    *)
(***************************************************************************)
\* the clients, flows and queue flow sets of the engine, without the values
\* the analysis and the optimizer derive from them
Topology(e) ==
    [clients |-> [c \in DOMAIN e.clients |->
                    [name |-> e.clients[c].name, SLO |-> e.clients[c].SLO,
                     flowIds |-> e.clients[c].flowIds]],
     flows |-> [f \in DOMAIN e.flows |->
                  [name |-> e.flows[f].name, clientId |-> e.flows[f].clientId,
                   queueIds |-> e.flows[f].queueIds, arrivalCurve |-> e.flows[f].arrivalCurve]],
     queues |-> [q \in DOMAIN e.queues |->
                   [name |-> e.queues[q].name, bandwidth |-> e.queues[q].bandwidth,
                    flows |-> e.queues[q].flows]]]

\* NC::calcAllLatency: the latency of every client is recomputed, in id order
RECURSIVE calcAllLatencyFrom(_, _, _)
calcAllLatencyFrom(e, ids, i) ==
    IF i > Len(ids) THEN e ELSE calcAllLatencyFrom(NC_calcClientLatency(e, ids[i]), ids, i + 1)

calcAllLatency(e) == calcAllLatencyFrom(e, SetToSeq(DOMAIN e.clients), 1)

\* C1: addClients admits a batch if and only if, with the batch added and the
\* shaper parameters re-optimized, every added and every affected client has
\* latency <= SLO; no batch is admitted while one of them has latency > SLO.
C1_AdmitIffAllFit ==
    (acCall.op = "addClients" /\ ~acCall.invalid) => (acResult.admitted <=> acCall.fits)

\* C2: when addClients rejects a batch, no client of the batch is left and the
\* engine has the clients, flows, queue flow sets and stored client records it
\* had before the call, with no flow (and so no shaper curve) of the batch.
C2_RejectRestores ==
    [][(acCall'.op = "addClients" /\ ~acCall'.invalid /\ ~acResult'.admitted)
        => /\ Topology(nc') = Topology(nc)
           /\ clientInfoStore' = clientInfoStore
           /\ \A c \in acCall'.batch : c \notin DOMAIN nc'.clients
           /\ \A f \in DOMAIN nc'.flows : nc'.flows[f].clientId \notin acCall'.batch]_acVars

\* A and B, that do not fit together, were submitted in one batch while C was
\* held: the batch was rejected, neither A nor B is left, and C is held
C2_Witness ==
    /\ acCall.op = "addClients" /\ ~acCall.invalid /\ acCall.batch = {1, 2}
    /\ acResult = [status |-> "SUCCESS", admitted |-> FALSE]
    /\ DOMAIN nc.clients = {3}

C4_HeldWithinSLO ==
    LET e == calcAllLatency(nc)
    IN \A c \in DOMAIN e.clients : \A f \in Range(e.clients[c].flowIds) :
          RLe(e.flows[f].latency, e.clients[c].SLO)

(***************************************************************************)
(* Placement coordinator (PlacementController.cpp).                        *)
(*                                                                         *)
(* Host and VM names are listed in the order of std::map / std::set        *)
(* iteration (lexicographic).                                              *)
(***************************************************************************)
ServerHosts == <<"S0", "S1", "S2", "S3", "S4">>

ClientHosts == <<"c0", "c1">>

VMNames == <<"1", "2">>

WorkloadNames == <<"w1", "w2", "w3">>

\* the elements of S in the order of the listing names
Sorted(names, S) == SelectSeq(names, LAMBDA x : x \in S)

\* NCConfig: the names of the queues of a host and of a server VM
getQueueInName(host) == <<host, "in">>

getQueueOutName(host) == <<host, "out">>

getServerName(host, VM) == <<host, "vm", VM>>

(***************************************************************************)
(* An admission replica as the coordinator sees it through                 *)
(* AdmissionController_clnt: the queues and the clients it holds.  Whether *)
(* a workload fits a server is decided by the latency analysis (SpecAC);   *)
(* here each server VM has a capacity and each workload a demand, and a    *)
(* workload fits when the demands on the server VM stay within capacity.   *)
(***************************************************************************)
Capacity == [h \in Range(ServerHosts) |-> IF h = "S2" THEN 2 ELSE 1]

Demand == [w \in Range(WorkloadNames) |-> IF w = "w3" THEN 2 ELSE 1]

EmptyReplica == [queues |-> {}, clients |-> {}]

\* the demand on a server VM of the clients a replica holds
RECURSIVE Load(_, _, _, _)
Load(rep, serverHost, serverVM, i) ==
    IF i > Len(WorkloadNames) THEN 0
    ELSE (IF \E c \in rep.clients : /\ c.name = WorkloadNames[i]
                                     /\ c.serverHost = serverHost /\ c.serverVM = serverVM
          THEN Demand[WorkloadNames[i]] ELSE 0)
         + Load(rep, serverHost, serverVM, i + 1)

\* configGenClient: the queues on the path of the flows of a client
configGenClient(clientInfo) ==
    [name |-> clientInfo.name,
     clientHost |-> clientInfo.clientHost, clientVM |-> clientInfo.clientVM,
     serverHost |-> clientInfo.serverHost, serverVM |-> clientInfo.serverVM]

clientQueues(c) ==
    { getQueueOutName(c.clientHost), getQueueInName(c.serverHost),
      getServerName(c.serverHost, c.serverVM),
      getQueueOutName(c.serverHost), getQueueInName(c.clientHost) }

\* AdmissionController_clnt::addQueue
replica_addQueue(rep, q) == [rep EXCEPT !.queues = @ \cup {q}]

\* AdmissionController_clnt::addClient: the replica refuses a name in use and a
\* queue it does not know, admits a client marked admitted without a check,
\* and any other client when it fits; a client not admitted is not kept
replica_addClient(rep, clientInfo) ==
    LET c == configGenClient(clientInfo)
        valid == /\ \A h \in rep.clients : h.name # c.name
                 /\ clientQueues(c) \subseteq rep.queues
        fits == Load(rep, c.serverHost, c.serverVM, 1) + Demand[c.name] <= Capacity[c.serverHost]
        admitted == valid /\ (isAdmitted(clientInfo) \/ fits)
    IN [rep |-> IF admitted THEN [rep EXCEPT !.clients = @ \cup {c}] ELSE rep,
        admitted |-> admitted]

\* AdmissionController_clnt::delClient
replica_delClient(rep, name) == [rep EXCEPT !.clients = { h \in @ : h.name # name }]

(***************************************************************************)
(* The coordinator's globals, gathered in a record p for the operators     *)
(* that model its functions:                                               *)
(*   servers, clients, grouping, workloads  g_servers, g_clients,          *)
(*                                          g_serverClientGrouping,        *)
(*                                          g_workloads                    *)
(*   current, workQueue, outstanding,       g_currentClientInfo,           *)
(*   next, best                             g_workQueue, g_outstandingWork,*)
(*                                          g_nextWorkQueueIndex,          *)
(*                                          g_bestWorkQueueIndex           *)
(*   replicas                               the servers behind g_clnts     *)
(*   pos, batch, i, result                  where the RPC thread is, the   *)
(*                                          clientInfos it works on, its   *)
(*                                          loop index, and the result     *)
(* Work queue indices count from 0 as in the code; sequences from 1.       *)
(***************************************************************************)
NULL == [null |-> TRUE]

VMsOf(clients, host) == IF host \in DOMAIN clients THEN clients[host] ELSE {}

firstVM(VMs) == Sorted(VMNames, VMs)[1]

\* the client host of the first workload on serverHost whose host has a free VM
RECURSIVE workloadClientFrom(_, _, _, _)
workloadClientFrom(clients, workloads, serverHost, k) ==
    IF k > Len(workloads) THEN ""
    ELSE IF workloads[k].serverHost = serverHost /\ VMsOf(clients, workloads[k].clientHost) # {}
    THEN workloads[k].clientHost
    ELSE workloadClientFrom(clients, workloads, serverHost, k + 1)

\* the first client host with the most free VMs
RECURSIVE maxAvailableFrom(_, _, _, _)
maxAvailableFrom(clients, hosts, k, m) ==
    IF k > Len(hosts) THEN m
    ELSE maxAvailableFrom(clients, hosts, k + 1,
            IF Cardinality(clients[hosts[k]]) > m.maxAvailableClients
            THEN [maxAvailableClients |-> Cardinality(clients[hosts[k]]), clientHost |-> hosts[k]]
            ELSE m)

\* ok = FALSE stands for exit(-1): out of client machines
clientServerPlacement(p, serverHost) ==
    LET grouped == IF serverHost \in DOMAIN p.grouping THEN p.grouping[serverHost] ELSE ""
        sharing == workloadClientFrom(p.clients, p.workloads, serverHost, 1)
        most == maxAvailableFrom(p.clients, Sorted(ClientHosts, DOMAIN p.clients), 1,
                                 [maxAvailableClients |-> 0, clientHost |-> ""])
        on(h) == [ok |-> TRUE, clientHost |-> h, clientVM |-> firstVM(p.clients[h])]
    IN IF grouped # "" /\ VMsOf(p.clients, grouped) # {} THEN on(grouped)
       ELSE IF sharing # "" THEN on(sharing)
       ELSE IF most.maxAvailableClients <= 0 THEN [ok |-> FALSE]
       ELSE on(most.clientHost)

\* workerThread / placeClient: the client info of a candidate placement
candidateInfo(clientInfo, client, server) ==
    [f \in DOMAIN clientInfo \cup {"clientHost", "clientVM", "serverHost", "serverVM"} |->
        CASE f = "clientHost" -> client.clientHost
          [] f = "clientVM" -> client.clientVM
          [] f = "serverHost" -> server[1]
          [] f = "serverVM" -> server[2]
          [] OTHER -> clientInfo[f]]

\* placeClient: the servers in first fit order
RECURSIVE firstFitOrder(_, _, _)
firstFitOrder(servers, hosts, k) ==
    IF k > Len(hosts) THEN <<>>
    ELSE LET VMs == Sorted(VMNames, servers[hosts[k]])
         IN [j \in 1..Len(VMs) |-> <<hosts[k], VMs[j]>>] \o firstFitOrder(servers, hosts, k + 1)

nextWork(p) == [p EXCEPT !.next = @ + 1, !.outstanding = @ + 1]

\* workComplete: g_workComplete is signalled when the work of the client is
\* done; the field tells that the signal was sent since placeClient began to
\* wait
signalWorkComplete(p) ==
    IF p.outstanding = 0 /\ p.next >= Len(p.workQueue)
    THEN [p EXCEPT !.workCompleteSignalled = TRUE]
    ELSE p

\* a variant that keeps the index of the attempt that succeeded last
workComplete_last(p, workQueueIndex, admitted) ==
    signalWorkComplete(
        IF admitted
        THEN [p EXCEPT !.outstanding = @ - 1, !.next = Len(p.workQueue), !.best = workQueueIndex]
        ELSE [p EXCEPT !.outstanding = @ - 1])

\* a variant that keeps the first success recorded
workComplete_first(p, workQueueIndex, admitted) ==
    signalWorkComplete(
        IF admitted
        THEN [p EXCEPT !.outstanding = @ - 1, !.next = Len(p.workQueue),
                       !.best = IF @ = Len(p.workQueue) THEN workQueueIndex ELSE @]
        ELSE [p EXCEPT !.outstanding = @ - 1])

workComplete(p, workQueueIndex, admitted) ==
    signalWorkComplete(
        IF admitted
        THEN [p EXCEPT !.outstanding = @ - 1, !.next = Len(p.workQueue),
                       !.best = IF workQueueIndex < @ THEN workQueueIndex ELSE @]
        ELSE [p EXCEPT !.outstanding = @ - 1])

\* what a sequential first fit over the work queue would accept: the index of
\* the first candidate a replica admits, Len(queue) when it admits none
RECURSIVE sequentialFirstFit(_, _, _, _)
sequentialFirstFit(p, clientInfo, queue, k) ==
    IF k >= Len(queue) THEN Len(queue)
    ELSE LET client == clientServerPlacement(p, queue[k + 1][1])
         IN IF client.ok /\ replica_addClient(p.replicas[1],
                                candidateInfo(clientInfo, client, queue[k + 1])).admitted
            THEN k
            ELSE sequentialFirstFit(p, clientInfo, queue, k + 1)

\* a variant that waits only until no candidate is left to hand out
placeClientWaits_handedOut(p) == p.next < Len(p.workQueue)

\* placeClient: the condition of its wait for the workers
placeClientWaits(p) == p.outstanding > 0 \/ p.next < Len(p.workQueue)

\* placeClient up to its wait for the workers
placeClientBegin(p, clientInfo) ==
    IF isAdmitted(clientInfo)
    THEN [p EXCEPT !.current = clientInfo,
                   !.workQueue = <<<<clientInfo.serverHost, clientInfo.serverVM>>>>,
                   !.best = 0,
                   !.search = [kind |-> "given", done |-> FALSE]]
    ELSE LET queue == firstFitOrder(p.servers, Sorted(ServerHosts, DOMAIN p.servers), 1)
         IN [p EXCEPT !.current = clientInfo,
                      !.workQueue = queue,
                      !.best = Len(queue),
                      !.search = [kind |-> "search", done |-> FALSE, queue |-> queue,
                                  tried |-> [k \in 0..(Len(queue) - 1) |-> "none"],
                                  firstOk |-> Len(queue),
                                  firstFit |-> sequentialFirstFit(p, clientInfo, queue, 0)]]

\* placeClient: the workload is admitted on the best server
placeAccepted(p, clientInfo) ==
    LET server == p.workQueue[p.best + 1]
        client == clientServerPlacement(p, server[1])
        info == candidateInfo(setMember(clientInfo, "admitted", TRUE), client, server)
        workloadInfo == [name |-> clientInfo.name,
                         clientHost |-> client.clientHost, clientVM |-> client.clientVM,
                         serverHost |-> server[1], serverVM |-> server[2]]
    IN IF ~client.ok THEN [p EXCEPT !.pos = "exited"]
       ELSE [p EXCEPT !.replicas = [r \in DOMAIN @ |-> replica_addClient(@[r], info).rep],
                      !.grouping = (server[1] :> client.clientHost) @@ @,
                      !.clients[client.clientHost] = @ \ {client.clientVM},
                      !.workloads = Append(@, workloadInfo)]

\* placeClient once the workers are done: [p, admitted]
placeClientEnd(p) ==
    LET admitted == p.best < Len(p.workQueue)
        q == IF admitted THEN placeAccepted(p, p.current) ELSE p
    IN [p |-> [q EXCEPT !.current = NULL, !.workQueue = <<>>, !.next = 0,
                        !.workCompleteSignalled = FALSE,
                        !.search = [f \in DOMAIN @ \cup {"admitted", "accepted"} |->
                                      CASE f = "done" -> TRUE
                                        [] f = "admitted" -> admitted
                                        [] f = "accepted" -> p.best
                                        [] OTHER -> @[f]]],
        admitted |-> admitted]

RECURSIVE firstNamed(_, _, _)
firstNamed(workloads, clientName, k) ==
    IF k > Len(workloads) THEN 0
    ELSE IF workloads[k].name = clientName THEN k
    ELSE firstNamed(workloads, clientName, k + 1)

removeClient(p, clientName) ==
    LET k == firstNamed(p.workloads, clientName, 1)
        w == p.workloads[k]
    IN IF k = 0 THEN p
       ELSE [p EXCEPT !.replicas = [r \in DOMAIN @ |-> replica_delClient(@[r], clientName)],
                      !.grouping = Restrict(@, DOMAIN @ \ {w.serverHost}),
                      !.clients[w.clientHost] = @ \cup {w.clientVM},
                      !.workloads = SubSeq(@, 1, k - 1) \o SubSeq(@, k + 1, Len(@))]

\* placement_controller_add_clients_svc: revert the placements of clientInfos j..i-1
RECURSIVE revertPlacementsFrom(_, _, _)
revertPlacementsFrom(p, j, i) ==
    IF j >= i THEN p
    ELSE revertPlacementsFrom(removeClient(p, p.batch[j].name), j + 1, i)

\* placement_controller_add_clients_svc: the loop over the clientInfos, from the
\* i-th one on, until placeClient waits for the workers or the call returns
RECURSIVE addClientsLoop(_, _)
RECURSIVE afterPlaceClient(_, _)
addClientsLoop(p, i) ==
    IF i > Len(p.batch)
    THEN [p EXCEPT !.pos = "idle", !.batch = <<>>, !.i = 0, !.result.status = "SUCCESS"]
    ELSE LET b == placeClientBegin(p, p.batch[i])
         IN IF ~isAdmitted(p.batch[i]) /\ placeClientWaits(b)
            THEN [b EXCEPT !.pos = "waiting", !.i = i]
            ELSE afterPlaceClient(placeClientEnd(b), i)

afterPlaceClient(e, i) ==
    IF e.p.pos = "exited" THEN e.p
    ELSE IF e.admitted
    THEN addClientsLoop([e.p EXCEPT !.result.placements = Append(@, e.p.workloads[Len(e.p.workloads)])],
                        i + 1)
    ELSE [revertPlacementsFrom(e.p, 1, i) EXCEPT
            !.pos = "idle", !.batch = <<>>, !.i = 0,
            !.result = [status |-> "SUCCESS", admitted |-> FALSE, placements |-> <<>>]]

placement_controller_add_clients_svc(p, arg) ==
    IF ~stringToJson(arg)
    THEN [p EXCEPT !.result = [status |-> "ERR_INVALID_ARGUMENT", admitted |-> FALSE, placements |-> <<>>]]
    ELSE addClientsLoop([p EXCEPT !.batch = arg.json.arr,
                                  !.result = [status |-> "SUCCESS", admitted |-> TRUE, placements |-> <<>>]],
                        1)

\* placement_controller_del_clients_svc
RECURSIVE removeClientsFrom(_, _, _)
removeClientsFrom(p, names, i) ==
    IF i > Len(names) THEN p ELSE removeClientsFrom(removeClient(p, names[i]), names, i + 1)

placement_controller_del_clients_svc(p, names) ==
    [removeClientsFrom(p, names, 1) EXCEPT !.result = [status |-> "SUCCESS"]]

\* placement_controller_add_server_vm_svc
placement_controller_add_server_vm_svc(p, serverHost, serverVM) ==
    LET withHost == IF serverHost \in DOMAIN p.servers THEN p
                    ELSE [p EXCEPT !.replicas = [r \in DOMAIN @ |->
                                        replica_addQueue(replica_addQueue(@[r], getQueueInName(serverHost)),
                                                         getQueueOutName(serverHost))],
                                   !.servers = (serverHost :> {}) @@ @]
    IN IF serverVM \notin withHost.servers[serverHost]
       THEN [withHost EXCEPT !.replicas = [r \in DOMAIN @ |->
                                            replica_addQueue(@[r], getServerName(serverHost, serverVM))],
                             !.servers[serverHost] = @ \cup {serverVM},
                             !.result = [status |-> "SUCCESS"]]
       ELSE [withHost EXCEPT !.result = [status |-> "ERR_SERVER_VM_ALREADY_EXISTS"]]

\* a variant that does not look for the VM among the placed workloads
placement_controller_add_client_vm_svc_unchecked(p, clientHost, clientVM) ==
    LET withHost == IF clientHost \in DOMAIN p.clients THEN p
                    ELSE [p EXCEPT !.replicas = [r \in DOMAIN @ |->
                                        replica_addQueue(replica_addQueue(@[r], getQueueInName(clientHost)),
                                                         getQueueOutName(clientHost))],
                                   !.clients = (clientHost :> {}) @@ @]
    IN IF clientVM \notin withHost.clients[clientHost]
       THEN [withHost EXCEPT !.clients[clientHost] = @ \cup {clientVM},
                             !.result = [status |-> "SUCCESS"]]
       ELSE [withHost EXCEPT !.result = [status |-> "ERR_CLIENT_VM_ALREADY_EXISTS"]]

\* placement_controller_add_client_vm_svc
placement_controller_add_client_vm_svc(p, clientHost, clientVM) ==
    LET withHost == IF clientHost \in DOMAIN p.clients THEN p
                    ELSE [p EXCEPT !.replicas = [r \in DOMAIN @ |->
                                        replica_addQueue(replica_addQueue(@[r], getQueueInName(clientHost)),
                                                         getQueueOutName(clientHost))],
                                   !.clients = (clientHost :> {}) @@ @]
        inUse == \E k \in DOMAIN p.workloads :
                    p.workloads[k].clientHost = clientHost /\ p.workloads[k].clientVM = clientVM
    IN IF clientVM \notin withHost.clients[clientHost] /\ ~inUse
       THEN [withHost EXCEPT !.clients[clientHost] = @ \cup {clientVM},
                             !.result = [status |-> "SUCCESS"]]
       ELSE [withHost EXCEPT !.result = [status |-> "ERR_CLIENT_VM_ALREADY_EXISTS"]]

\* workerThread: the attempt on the worker's replica, undone when admitted
attempt(rep, clientInfo) ==
    LET a == replica_addClient(rep, clientInfo)
    IN IF a.admitted THEN [a EXCEPT !.rep = replica_delClient(@, clientInfo.name)] ELSE a

\* workerThread: nextWork and the candidate the worker will try: [p, worker]
takeWork(p) ==
    LET workQueueIndex == p.next
        server == p.workQueue[workQueueIndex + 1]
        client == clientServerPlacement(p, server[1])
    IN IF ~client.ok
       THEN [p |-> [nextWork(p) EXCEPT !.pos = "exited"], worker |-> [pc |-> "idle"]]
       ELSE [p |-> nextWork(p),
             worker |-> [pc |-> "rpc", workQueueIndex |-> workQueueIndex,
                         clientInfo |-> candidateInfo(p.current, client, server)]]

(***************************************************************************)
(* The inputs of the placement coordinator.                                *)
(***************************************************************************)
\* the number of admission replicas (g_clnts), each with its worker thread
NumReplicas == 4

\* the number of addClients and delClients calls the coordinator is followed for
MaxPCCalls == 2

WorkloadInfo(name) == [name |-> name]

\* a workload submitted as admitted already, on the first server
GivenInfo(name) == [name |-> name, admitted |-> TRUE, serverHost |-> "S0", serverVM |-> "1"]

PlacementInfos == { WorkloadInfo(n) : n \in Range(WorkloadNames) } \cup { GivenInfo("w1") }

\* the batches: text that does not parse, one workload, and a workload followed
\* by the large workload
PlacementAddClientsArgs ==
    {[ok |-> FALSE, json |-> JStr("{")]}
    \cup { [ok |-> TRUE, json |-> JArr(<<a>>)] : a \in PlacementInfos }
    \cup { [ok |-> TRUE, json |-> JArr(<<a, WorkloadInfo("w3")>>)] :
               a \in PlacementInfos \ {WorkloadInfo("w3")} }

PlacementDelClientsArgs == { <<n>> : n \in Range(WorkloadNames) }

\* the client VMs and then the server VMs are registered in the order of their
\* names, before the first workload is submitted
NextServerVM(servers) ==
    { <<ServerHosts[k], VMNames[1]>> : k \in {Cardinality(DOMAIN servers) + 1} \cap DOMAIN ServerHosts }

ClientVMList == <<<<"c0", "1">>, <<"c0", "2">>, <<"c1", "1">>>>

NextClientVM(clients) ==
    LET n == Cardinality(UNION { { <<h, v>> : v \in clients[h] } : h \in DOMAIN clients })
    IN { ClientVMList[k] : k \in {n + 1} \cap DOMAIN ClientVMList }

(***************************************************************************)
(* The placement coordinator: the RPC thread and one worker thread for     *)
(* each replica.  Every step below runs with g_mutex held, or (Attempt)    *)
(* touches only the worker's own replica; the RPC thread gives the mutex   *)
(* up only inside placeClient's wait (pos = "waiting").                    *)
(***************************************************************************)
PState ==
    [servers |-> g_servers, clients |-> g_clients, grouping |-> g_serverClientGrouping,
     workloads |-> g_workloads, current |-> g_currentClientInfo, workQueue |-> g_workQueue,
     outstanding |-> g_outstandingWork, next |-> g_nextWorkQueueIndex,
     best |-> g_bestWorkQueueIndex, workCompleteSignalled |-> g_workComplete,
     replicas |-> replicas, search |-> search,
     pos |-> pcThread.pos, batch |-> pcThread.batch, i |-> pcThread.i,
     result |-> pcResult, call |-> pcCall]

SetP(p) ==
    \E q \in {p} :
       /\ g_servers' = q.servers
       /\ g_clients' = q.clients
       /\ g_serverClientGrouping' = q.grouping
       /\ g_workloads' = q.workloads
       /\ g_currentClientInfo' = q.current
       /\ g_workQueue' = q.workQueue
       /\ g_outstandingWork' = q.outstanding
       /\ g_nextWorkQueueIndex' = q.next
       /\ g_bestWorkQueueIndex' = q.best
       /\ g_workComplete' = q.workCompleteSignalled
       /\ replicas' = q.replicas
       /\ search' = q.search
       /\ pcThread' = [pos |-> q.pos, batch |-> q.batch, i |-> q.i]
       /\ pcResult' = q.result
       /\ pcCall' = q.call

\* the clients every replica holds
Held(reps) == [r \in DOMAIN reps |-> reps[r].clients]

InitPC ==
    /\ g_servers = <<>>
    /\ g_clients = <<>>
    /\ g_serverClientGrouping = <<>>
    /\ g_workloads = <<>>
    /\ g_currentClientInfo = NULL
    /\ g_workQueue = <<>>
    /\ g_outstandingWork = 0
    /\ g_nextWorkQueueIndex = 0
    /\ g_bestWorkQueueIndex = 0
    /\ g_workComplete = FALSE
    /\ replicas = [r \in 1..NumReplicas |-> EmptyReplica]
    /\ workers = [r \in 1..NumReplicas |-> [pc |-> "idle"]]
    /\ pcThread = [pos |-> "idle", batch |-> <<>>, i |-> 0]
    /\ pcResult = [status |-> "SUCCESS"]
    /\ pcCall = [op |-> "none"]
    /\ search = [kind |-> "none", done |-> FALSE]
    /\ pcCalls = 0

PlacementAddServerVM ==
    /\ pcThread.pos = "idle" /\ pcCalls = 0
    /\ NextClientVM(g_clients) = {}
    /\ \E s \in NextServerVM(g_servers) :
          SetP([placement_controller_add_server_vm_svc(PState, s[1], s[2]) EXCEPT
                  !.call = [op |-> "addServerVM"]])
    /\ UNCHANGED <<workers, pcCalls, acVars, ssVars, lkVars, kaVars, esVars, dnVars, occVars, rvVars>>

PlacementAddClientVM ==
    /\ pcThread.pos = "idle" /\ pcCalls = 0
    /\ \E c \in NextClientVM(g_clients) :
          SetP([placement_controller_add_client_vm_svc(PState, c[1], c[2]) EXCEPT
                  !.call = [op |-> "addClientVM"]])
    /\ UNCHANGED <<workers, pcCalls, acVars, ssVars, lkVars, kaVars, esVars, dnVars, occVars, rvVars>>

PlacementAddClients ==
    /\ pcThread.pos = "idle" /\ pcCalls < MaxPCCalls
    /\ pcCalls' = pcCalls + 1
    /\ \E arg \in PlacementAddClientsArgs :
          SetP(placement_controller_add_clients_svc(
                  [PState EXCEPT !.call = [op |-> "addClients",
                                           workloads |-> g_workloads, clients |-> g_clients,
                                           held |-> Held(replicas)],
                                 !.search = [kind |-> "none", done |-> FALSE]],
                  arg))
    /\ UNCHANGED <<workers, acVars, ssVars, lkVars, kaVars, esVars, dnVars, occVars, rvVars>>

PlacementDelClients ==
    /\ pcThread.pos = "idle" /\ pcCalls < MaxPCCalls
    /\ pcCalls' = pcCalls + 1
    /\ \E names \in PlacementDelClientsArgs :
          SetP([placement_controller_del_clients_svc(PState, names) EXCEPT
                  !.call = [op |-> "delClients"],
                  !.search = [kind |-> "none", done |-> FALSE]])
    /\ UNCHANGED <<workers, acVars, ssVars, lkVars, kaVars, esVars, dnVars, occVars, rvVars>>

\* a worker waiting in nextWork is given work
WorkerTake(w) ==
    /\ pcThread.pos = "waiting"
    /\ workers[w].pc = "idle"
    /\ g_nextWorkQueueIndex < Len(g_workQueue)
    /\ \E t \in {takeWork(PState)} :
          SetP(t.p) /\ workers' = [workers EXCEPT ![w] = t.worker]
    /\ UNCHANGED <<pcCalls, acVars, ssVars, lkVars, kaVars, esVars, dnVars, occVars, rvVars>>

\* the worker's addClient and delClient on its replica, which no other thread
\* reads meanwhile, then workComplete, and nextWork again when work is left
WorkerComplete(w) ==
    /\ pcThread.pos = "waiting"
    /\ workers[w].pc = "rpc"
    /\ LET a == attempt(replicas[w], workers[w].clientInfo)
           k == workers[w].workQueueIndex
           q == [PState EXCEPT !.replicas[w] = a.rep,
                               !.search.tried[k] = IF a.admitted THEN "ok" ELSE "no",
                               !.search.firstOk = IF a.admitted /\ @ = Len(g_workQueue)
                                                  THEN k ELSE @]
           p == workComplete(q, k, a.admitted)
       IN \E t \in {IF p.next < Len(p.workQueue) THEN takeWork(p)
                     ELSE [p |-> p, worker |-> [pc |-> "idle"]]} :
             SetP(t.p) /\ workers' = [workers EXCEPT ![w] = t.worker]
    /\ UNCHANGED <<pcCalls, acVars, ssVars, lkVars, kaVars, esVars, dnVars, occVars, rvVars>>

\* placeClient's wait is over: the rest of placeClient and of the RPC
PlaceClientDone ==
    /\ pcThread.pos = "waiting"
    /\ ~placeClientWaits(PState)
    /\ SetP(afterPlaceClient(placeClientEnd(PState), pcThread.i))
    /\ UNCHANGED <<workers, pcCalls, acVars, ssVars, lkVars, kaVars, esVars, dnVars, occVars, rvVars>>

NextPC ==
    \/ PlacementAddServerVM
    \/ PlacementAddClientVM
    \/ PlacementAddClients
    \/ PlacementDelClients
    \/ \E w \in 1..NumReplicas : WorkerTake(w)
    \/ \E w \in 1..NumReplicas : WorkerComplete(w)
    \/ PlaceClientDone

(***************************************************************************)
(* Properties of the placement coordinator.                                *)
(***************************************************************************)
\* the work-queue indices whose attempt reported success in the search
Succeeded == { k \in DOMAIN search.tried : search.tried[k] = "ok" }

searchDone == search.kind = "search" /\ search.done

\* C5: whatever the interleaving of the workers and the order in which their
\* attempts finish, the placement placeClient accepts is the candidate with the
\* lowest work-queue index among the attempts that reported success.
C5_LowestSuccessWins ==
    (searchDone /\ Succeeded # {}) =>
        /\ search.admitted
        /\ search.accepted \in Succeeded
        /\ \A k \in Succeeded : search.accepted <= k

\* a search in which the first success reported was not the lowest one
C5_Witness ==
    /\ searchDone
    /\ search.admitted
    /\ search.firstOk > search.accepted
    /\ search.firstOk \in Succeeded

\* C6: the parallel placement returns what a sequential first fit returns:
\* the accepted candidate is the lowest-indexed candidate that fits, every
\* candidate with a lower index was attempted and rejected, and the workload
\* is rejected only when every candidate was attempted and rejected; with
\* candidates S0..S4 of which only S2 fits, the result is S2.
C6_SequentialFirstFit ==
    searchDone =>
        /\ search.accepted = search.firstFit
        /\ search.admitted <=> search.firstFit < Len(search.queue)
        /\ \A k \in DOMAIN search.tried : k < search.accepted => search.tried[k] = "no"
        /\ ~search.admitted => \A k \in DOMAIN search.tried : search.tried[k] = "no"
        /\ (search.admitted /\ pcThread.pos = "idle") =>
              /\ g_workloads # <<>>
              /\ <<g_workloads[Len(g_workloads)].serverHost,
                   g_workloads[Len(g_workloads)].serverVM>> = search.queue[search.accepted + 1]

\* the large workload placed among S0..S4, where only S2 takes it, with the
\* attempt on S3 made as well
C6_Witness ==
    /\ searchDone
    /\ pcThread.pos = "idle"
    /\ Len(search.queue) = Len(ServerHosts)
    /\ search.firstFit = 2
    /\ search.accepted = 2
    /\ search.tried[3] = "no"
    /\ g_workloads[Len(g_workloads)].name = "w3"
    /\ g_workloads[Len(g_workloads)].serverHost = "S2"

\* C7: when the placement of a workload of an addClients batch fails, the
\* call returns admitted = false and the workloads of the batch placed before
\* it are rolled back: the workload list, the free client VMs and the clients
\* every replica holds are what they were before the call.
C7_FailedBatchRolledBack ==
    (/\ pcThread.pos = "idle"
     /\ pcCall.op = "addClients"
     /\ searchDone
     /\ ~search.admitted) =>
        /\ pcResult.status = "SUCCESS"
        /\ pcResult.admitted = FALSE
        /\ g_workloads = pcCall.workloads
        /\ g_clients = pcCall.clients
        /\ Held(replicas) = pcCall.held

\* C8: whenever no placement is in progress, every replica holds exactly the
\* workloads of the coordinator's list, each with its accepted placement.
C8_ReplicasHoldPlaced ==
    pcThread.pos = "idle" =>
        \A r \in DOMAIN replicas :
            replicas[r].clients = { g_workloads[k] : k \in DOMAIN g_workloads }

(***************************************************************************)
(* The storage scheduler (NFSEnforcer/scheduler.cpp) and the worker        *)
(* threads of NFSEnforcer.cpp that drive it.                               *)
(*                                                                         *)
(*   now            the clock GetTime reads                                *)
(*   sched          the Scheduler object: its members without the leading  *)
(*                  underscore, clients being the map _clients              *)
(*   workerThreads  for each worker thread where it is (pc) and the job it  *)
(*                  holds; history: the reads and writes of lower priority *)
(*                  dispatched since its job was                           *)
(*   jobCount       history: the number of jobs submitted; the id of a job *)
(*                  is its rank in the order of submission                 *)
(*   dispatched     history: for each tenant and class, the id of the job  *)
(*                  ScheduleJob released last and the number of jobs of    *)
(*                  that tenant and class pending behind it at that time   *)
(*   dispatchedWork history: for each tenant the work dispatched since its  *)
(*                  queue last became non-empty (all), the part of it      *)
(*                  dispatched within the limits (obeyed), and the tokens  *)
(*                  the buckets held when the queue became non-empty       *)
(* A Job is a record; a job in a list stands for the pointer to it, and    *)
(* pointers are compared by id.                                            *)
(***************************************************************************)
\* the clock counts half seconds
TicksPerSecond == 2

ConvertTimeToSeconds(t) == Rat(t, TicksPerSecond)

\* the bandwidth table of the StorageSSDEstimator
BandwidthTable ==
    <<[requestSize |-> 2, readBandwidth |-> 2, writeBandwidth |-> 1],
      [requestSize |-> 4, readBandwidth |-> 4, writeBandwidth |-> 2]>>

linearInterpolate(x, x0, x1, y0, y1) ==
    RAdd(y0, RDiv(RMul(RSub(y1, y0), RSub(x, x0)), RSub(x1, x0)))

\* StorageSSDEstimator::StorageSSDEstimator: the read and the write table of
\* the profile
StorageSSDEstimator(estimatorInfo) ==
    LET bwTable == estimatorInfo.bandwidthTable
    IN [readBandwidthTable |->
            [entry \in DOMAIN bwTable |->
                [requestSize |-> bwTable[entry].requestSize,
                 bandwidth |-> RInt(bwTable[entry].readBandwidth)]],
        writeBandwidthTable |->
            [entry \in DOMAIN bwTable |->
                [requestSize |-> bwTable[entry].requestSize,
                 bandwidth |-> RInt(bwTable[entry].writeBandwidth)]]]

\* StorageSSDEstimator::estimateWork, the local variable bandwidth at the
\* assertion
bandwidth(est, requestSize, isReadRequest) ==
    LET bandwidthTable == IF isReadRequest THEN est.readBandwidthTable
                          ELSE est.writeBandwidthTable
        above == { i \in 2..Len(bandwidthTable) : requestSize < bandwidthTable[i].requestSize }
        interpolated(i) ==
            linearInterpolate(RInt(requestSize),
                              RInt(bandwidthTable[i - 1].requestSize),
                              RInt(bandwidthTable[i].requestSize),
                              bandwidthTable[i - 1].bandwidth, bandwidthTable[i].bandwidth)
    IN IF above = {} THEN bandwidthTable[Len(bandwidthTable)].bandwidth
       ELSE interpolated(SetMin(above))

\* StorageSSDEstimator::estimateWork of the estimator of the storage enforcer
estimateWork(requestSize, isReadRequest) ==
    RDiv(RInt(requestSize),
         bandwidth(StorageSSDEstimator([bandwidthTable |-> BandwidthTable]),
                   requestSize, isReadRequest))

\* new Job() and InitJob: a request of a tenant as it is submitted
Job(id, s_addr, rq_proc, requestSize) ==
    [id |-> id, s_addr |-> s_addr, rq_proc |-> rq_proc,
     immediate |-> rq_proc \notin {"READ", "WRITE"},
     requestSize |-> IF rq_proc \in {"READ", "WRITE"} THEN requestSize ELSE 0,
     arrivalTime |-> 0, jobSize |-> RInt(0), rateLimitObeyed |-> FALSE, priority |-> 0,
     seqNumRead |-> 0, seqNumWrite |-> 0, seqNumReadBytes |-> 0, seqNumWriteBytes |-> 0,
     cl |-> 0]

IsReadRequest(pJob) == pJob.rq_proc = "READ"

IsWriteRequest(pJob) == pJob.rq_proc = "WRITE"

\* Scheduler::GetClient: the client record made for an unknown address
NewClient(t) ==
    [pendingJobs |-> <<>>, priority |-> 0,
     rateLimitRates |-> <<>>, rateLimitBursts |-> <<>>, rateLimitTokens |-> <<>>,
     rateLimitUpdateTime |-> 0, rateLimitObeyed |-> FALSE,
     occupancy |-> 0, lastOccupancyTime |-> t, getOccupancyTime |-> t]

GetClient(s, s_addr, t) ==
    IF s_addr \in DOMAIN s.clients THEN s
    ELSE [s EXCEPT !.clients = (s_addr :> NewClient(t)) @@ @]

UpdateClient(s, s_addr, priority, rateLimitRates, rateLimitBursts, t) ==
    [GetClient(s, s_addr, t) EXCEPT
        !.clients[s_addr] = [@ EXCEPT !.priority = priority,
                                      !.rateLimitRates = rateLimitRates,
                                      !.rateLimitBursts = rateLimitBursts,
                                      !.rateLimitTokens = rateLimitBursts,
                                      !.rateLimitObeyed = FALSE]]

\* (double) of a uint64_t: the occupancy counter wraps modulo 2^64, a wrapped
\* value is held as the negative integer congruent to it and converts to a
\* double above every time of the model
uint64ToDouble(x) == IF x >= 0 THEN RInt(x) ELSE Inf

\* Scheduler::GetOccupancy: [s, occupancy]
GetOccupancy(s, s_addr, t) ==
    LET g == GetClient(s, s_addr, t)
        c == g.clients[s_addr]
        occupancyTime == c.occupancy + (IF c.pendingJobs # <<>> THEN t - c.lastOccupancyTime ELSE 0)
    IN [s |-> [g EXCEPT !.clients[s_addr] = [@ EXCEPT !.occupancy = @ - occupancyTime,
                                                      !.getOccupancyTime = t]],
        occupancy |-> RDiv(uint64ToDouble(occupancyTime), uint64ToDouble(t - c.getOccupancyTime))]

EstimateJobSize(pJob) ==
    IF ~IsReadRequest(pJob) /\ ~IsWriteRequest(pJob) THEN RInt(0)
    ELSE estimateWork(pJob.requestSize, IsReadRequest(pJob))

PREFER_1 == 1

PREFER_EQUAL == 0

PREFER_2 == -1

\* a variant that does not look at the priorities
CompareClient_fcfs(c1, c2) ==
    IF c1.pendingJobs = <<>> THEN (IF c2.pendingJobs = <<>> THEN PREFER_EQUAL ELSE PREFER_2)
    ELSE IF c2.pendingJobs = <<>> THEN PREFER_1
    ELSE LET pJob1 == Head(c1.pendingJobs)
             pJob2 == Head(c2.pendingJobs)
         IN IF pJob1.immediate /\ ~pJob2.immediate THEN PREFER_1
            ELSE IF ~pJob1.immediate /\ pJob2.immediate THEN PREFER_2
            ELSE IF c1.rateLimitObeyed /\ ~c2.rateLimitObeyed THEN PREFER_1
            ELSE IF ~c1.rateLimitObeyed /\ c2.rateLimitObeyed THEN PREFER_2
            ELSE IF pJob1.arrivalTime < pJob2.arrivalTime THEN PREFER_1
            ELSE IF pJob1.arrivalTime > pJob2.arrivalTime THEN PREFER_2
            ELSE PREFER_EQUAL

CompareClient(c1, c2) ==
    IF c1.pendingJobs = <<>> THEN (IF c2.pendingJobs = <<>> THEN PREFER_EQUAL ELSE PREFER_2)
    ELSE IF c2.pendingJobs = <<>> THEN PREFER_1
    ELSE LET pJob1 == Head(c1.pendingJobs)
             pJob2 == Head(c2.pendingJobs)
         IN IF pJob1.immediate /\ ~pJob2.immediate THEN PREFER_1
            ELSE IF ~pJob1.immediate /\ pJob2.immediate THEN PREFER_2
            ELSE IF c1.rateLimitObeyed /\ ~c2.rateLimitObeyed THEN PREFER_1
            ELSE IF ~c1.rateLimitObeyed /\ c2.rateLimitObeyed THEN PREFER_2
            ELSE IF c1.rateLimitObeyed /\ c2.rateLimitObeyed /\ c1.priority < c2.priority
            THEN PREFER_1
            ELSE IF c1.rateLimitObeyed /\ c2.rateLimitObeyed /\ c1.priority > c2.priority
            THEN PREFER_2
            ELSE IF pJob1.arrivalTime < pJob2.arrivalTime THEN PREFER_1
            ELSE IF pJob1.arrivalTime > pJob2.arrivalTime THEN PREFER_2
            ELSE PREFER_EQUAL

UpdateTokens(c, t) ==
    IF c.pendingJobs = <<>> \/ c.rateLimitObeyed THEN c
    ELSE LET pJob == Head(c.pendingJobs)
             wasEmpty == c.rateLimitUpdateTime < c.lastOccupancyTime
             idle == ConvertTimeToSeconds(c.lastOccupancyTime - c.rateLimitUpdateTime)
             capped == [i \in DOMAIN c.rateLimitTokens |->
                          LET x == RAdd(c.rateLimitTokens[i], RMul(idle, c.rateLimitRates[i]))
                          IN IF RGt(x, c.rateLimitBursts[i]) THEN c.rateLimitBursts[i] ELSE x]
             tokens == IF wasEmpty THEN capped ELSE c.rateLimitTokens
             updateTime == IF wasEmpty THEN c.lastOccupancyTime ELSE c.rateLimitUpdateTime
             elapsedTime == ConvertTimeToSeconds(t - updateTime)
             filled == [i \in DOMAIN tokens |-> RAdd(tokens[i], RMul(elapsedTime, c.rateLimitRates[i]))]
         IN [c EXCEPT !.rateLimitTokens = filled,
                      !.rateLimitUpdateTime = t,
                      !.rateLimitObeyed = \A i \in DOMAIN filled : ~RGt(pJob.jobSize, filled[i])]

\* Scheduler::AddJob: [s, signal], signal telling that _availableJobsCV is signalled
AddJob(s, pJob, t) ==
    LET g == GetClient(s, pJob.s_addr, t)
        c == g.clients[pJob.s_addr]
        job == [pJob EXCEPT !.arrivalTime = t, !.jobSize = EstimateJobSize(pJob), !.cl = 0]
    IN [s |-> [g EXCEPT !.clients[pJob.s_addr] =
                            [@ EXCEPT !.lastOccupancyTime = IF c.pendingJobs = <<>> THEN t ELSE @,
                                      !.pendingJobs = Append(@, job)],
                        !.pendingJobCount = @ + 1],
        signal |-> c.pendingJobs = <<>>]

\* a variant that takes the job submitted last
RemoveJob_back(s, s_addr, t) ==
    LET c == s.clients[s_addr]
        pJob == c.pendingJobs[Len(c.pendingJobs)]
        rest == SubSeq(c.pendingJobs, 1, Len(c.pendingJobs) - 1)
    IN [s |-> [s EXCEPT !.clients[s_addr] =
                            [@ EXCEPT !.pendingJobs = rest,
                                      !.occupancy = IF rest = <<>> THEN @ + (t - c.lastOccupancyTime) ELSE @,
                                      !.rateLimitTokens =
                                          [i \in DOMAIN @ |->
                                              LET x == RSub(@[i], pJob.jobSize)
                                              IN IF RLt(x, RInt(0)) THEN RInt(0) ELSE x],
                                      !.rateLimitObeyed = FALSE],
                        !.pendingJobCount = @ - 1],
        pJob |-> [pJob EXCEPT !.rateLimitObeyed = c.rateLimitObeyed]]

\* a variant that does not charge the job to the token buckets
RemoveJob_noCharge(s, s_addr, t) ==
    LET c == s.clients[s_addr]
        pJob == Head(c.pendingJobs)
        rest == Tail(c.pendingJobs)
    IN [s |-> [s EXCEPT !.clients[s_addr] =
                            [@ EXCEPT !.pendingJobs = rest,
                                      !.occupancy = IF rest = <<>> THEN @ + (t - c.lastOccupancyTime) ELSE @,
                                      !.rateLimitObeyed = FALSE],
                        !.pendingJobCount = @ - 1],
        pJob |-> [pJob EXCEPT !.rateLimitObeyed = c.rateLimitObeyed]]

\* Scheduler::RemoveJob: [s, pJob]
RemoveJob(s, s_addr, t) ==
    LET c == s.clients[s_addr]
        pJob == Head(c.pendingJobs)
        rest == Tail(c.pendingJobs)
    IN [s |-> [s EXCEPT !.clients[s_addr] =
                            [@ EXCEPT !.pendingJobs = rest,
                                      !.occupancy = IF rest = <<>> THEN @ + (t - c.lastOccupancyTime) ELSE @,
                                      !.rateLimitTokens =
                                          [i \in DOMAIN @ |->
                                              LET x == RSub(@[i], pJob.jobSize)
                                              IN IF RLt(x, RInt(0)) THEN RInt(0) ELSE x],
                                      !.rateLimitObeyed = FALSE],
                        !.pendingJobCount = @ - 1],
        pJob |-> [pJob EXCEPT !.rateLimitObeyed = c.rateLimitObeyed]]

\* Scheduler::FindBestClient over the clients from the k-th address on
RECURSIVE findBestFrom(_, _, _, _, _)
findBestFrom(s, addrs, k, best, t) ==
    IF k > Len(addrs) THEN [s |-> s, best |-> best]
    ELSE LET u == [s EXCEPT !.clients[addrs[k]] = UpdateTokens(@, t)]
         IN findBestFrom(u, addrs, k + 1,
                         IF CompareClient(u.clients[addrs[k]], u.clients[best]) > 0
                         THEN addrs[k] ELSE best,
                         t)

\* Scheduler::FindBestClient: [s, best], best being the address of the client
FindBestClient(s, t) ==
    LET addrs == SetToSeq(DOMAIN s.clients)
    IN findBestFrom(s, addrs, 1, addrs[1], t)

\* ScheduleJob: the outstanding job of higher priority than c that is oldest
higherPriority(s, c) == SelectSeq(s.outstandingPriorityList, LAMBDA j : j.priority < c.priority)

\* a variant without the cap on the outstanding read jobs
readHeldBack_noJobCap(s, c, pJob) ==
    LET higher == higherPriority(s, c)
        oldestHigherPrioritySeqNumRead ==
            IF higher = <<>> THEN s.seqNumRead ELSE higher[1].seqNumRead
        oldestHigherPrioritySeqNumReadBytes ==
            IF higher = <<>> THEN s.seqNumReadBytes ELSE higher[1].seqNumReadBytes
    IN \/ s.outstandingReadBytes + pJob.requestSize >= s.maxOutstandingReadBytes
       \/ s.seqNumRead > oldestHigherPrioritySeqNumRead + s.maxOutstandingReadJobs
       \/ s.seqNumReadBytes + pJob.requestSize
             >= oldestHigherPrioritySeqNumReadBytes + s.maxOutstandingReadBytes

\* ScheduleJob: the checks that hold back a read job
readHeldBack(s, c, pJob) ==
    LET higher == higherPriority(s, c)
        oldestHigherPrioritySeqNumRead ==
            IF higher = <<>> THEN s.seqNumRead ELSE higher[1].seqNumRead
        oldestHigherPrioritySeqNumReadBytes ==
            IF higher = <<>> THEN s.seqNumReadBytes ELSE higher[1].seqNumReadBytes
    IN \/ s.outstandingReadJobs >= s.maxOutstandingReadJobs
       \/ s.outstandingReadBytes + pJob.requestSize >= s.maxOutstandingReadBytes
       \/ s.seqNumRead > oldestHigherPrioritySeqNumRead + s.maxOutstandingReadJobs
       \/ s.seqNumReadBytes + pJob.requestSize
             >= oldestHigherPrioritySeqNumReadBytes + s.maxOutstandingReadBytes

\* ScheduleJob: the checks that hold back a write job
writeHeldBack(s, c, pJob) ==
    LET higher == higherPriority(s, c)
        oldestHigherPrioritySeqNumWrite ==
            IF higher = <<>> THEN s.seqNumWrite ELSE higher[1].seqNumWrite
        oldestHigherPrioritySeqNumWriteBytes ==
            IF higher = <<>> THEN s.seqNumWriteBytes ELSE higher[1].seqNumWriteBytes
    IN \/ s.outstandingWriteJobs >= s.maxOutstandingWriteJobs
       \/ s.outstandingWriteBytes + pJob.requestSize >= s.maxOutstandingWriteBytes
       \/ s.seqNumWrite > oldestHigherPrioritySeqNumWrite + s.maxOutstandingWriteJobs
       \/ s.seqNumWriteBytes + pJob.requestSize
             >= oldestHigherPrioritySeqNumWriteBytes + s.maxOutstandingWriteBytes

\* ScheduleJob: the job of the client at s_addr is released for execution
releaseJob(s, s_addr, t) ==
    LET release(r) ==
            LET u == r.s
                pJob == [r.pJob EXCEPT !.priority = s.clients[s_addr].priority,
                                       !.seqNumRead = u.seqNumRead,
                                       !.seqNumWrite = u.seqNumWrite,
                                       !.seqNumReadBytes = u.seqNumReadBytes,
                                       !.seqNumWriteBytes = u.seqNumWriteBytes,
                                       !.cl = u.RPCAvailableClients[Len(u.RPCAvailableClients)]]
                reads == IF IsReadRequest(pJob) THEN 1 ELSE 0
                readBytes == IF IsReadRequest(pJob) THEN pJob.requestSize ELSE 0
                writes == IF IsWriteRequest(pJob) THEN 1 ELSE 0
                writeBytes == IF IsWriteRequest(pJob) THEN pJob.requestSize ELSE 0
            IN [s |-> [u EXCEPT !.seqNumRead = @ + reads,
                                !.seqNumReadBytes = @ + readBytes,
                                !.seqNumWrite = @ + writes,
                                !.seqNumWriteBytes = @ + writeBytes,
                                !.outstandingPriorityList =
                                    IF pJob.rateLimitObeyed THEN Append(@, pJob) ELSE @,
                                !.RPCAvailableClients = SubSeq(@, 1, Len(@) - 1),
                                !.outstandingJobs = @ + 1,
                                !.outstandingReadJobs = @ + reads,
                                !.outstandingReadBytes = @ + readBytes,
                                !.outstandingWriteJobs = @ + writes,
                                !.outstandingWriteBytes = @ + writeBytes],
                pJob |-> pJob]
    IN release(RemoveJob(s, s_addr, t))

\* Scheduler::ScheduleJob: [s, pJob], pJob being NULL when no job is released
ScheduleJob(s, t) ==
    IF ~(s.pendingJobCount > 0) \/ s.RPCAvailableClients = <<>> THEN [s |-> s, pJob |-> NULL]
    ELSE LET schedule(f) ==
                 LET c == f.s.clients[f.best]
                     pJob == Head(c.pendingJobs)
                 IN IF pJob.immediate
                    THEN releaseJob([f.s EXCEPT !.maxOutstandingJobs = @ + 1], f.best, t)
                    ELSE IF \/ f.s.outstandingJobs >= f.s.maxOutstandingJobs
                            \/ IsReadRequest(pJob) /\ readHeldBack(f.s, c, pJob)
                            \/ IsWriteRequest(pJob) /\ writeHeldBack(f.s, c, pJob)
                    THEN [s |-> f.s, pJob |-> NULL]
                    ELSE releaseJob(f.s, f.best, t)
         IN schedule(FindBestClient(s, t))

\* Scheduler::RemoveOutstandingPriority
RemoveOutstandingPriority(list, pJob) == SelectSeq(list, LAMBDA j : j.id # pJob.id)

\* a variant that leaves maxOutstandingJobs as the immediate job raised it
CompleteJob_keepMax(s, pJob) ==
    [s |-> [s EXCEPT !.outstandingJobs = @ - 1,
                     !.outstandingReadJobs = IF IsReadRequest(pJob) THEN @ - 1 ELSE @,
                     !.outstandingReadBytes = IF IsReadRequest(pJob) THEN @ - pJob.requestSize ELSE @,
                     !.outstandingWriteJobs = IF IsWriteRequest(pJob) THEN @ - 1 ELSE @,
                     !.outstandingWriteBytes = IF IsWriteRequest(pJob) THEN @ - pJob.requestSize ELSE @,
                     !.outstandingPriorityList =
                         IF pJob.rateLimitObeyed THEN RemoveOutstandingPriority(@, pJob) ELSE @],
     broadcast |-> s.pendingJobCount > 0]

\* Scheduler::CompleteJob: [s, broadcast]
CompleteJob(s, pJob) ==
    [s |-> [s EXCEPT !.maxOutstandingJobs = IF pJob.immediate THEN @ - 1 ELSE @,
                     !.outstandingJobs = @ - 1,
                     !.outstandingReadJobs = IF IsReadRequest(pJob) THEN @ - 1 ELSE @,
                     !.outstandingReadBytes = IF IsReadRequest(pJob) THEN @ - pJob.requestSize ELSE @,
                     !.outstandingWriteJobs = IF IsWriteRequest(pJob) THEN @ - 1 ELSE @,
                     !.outstandingWriteBytes = IF IsWriteRequest(pJob) THEN @ - pJob.requestSize ELSE @,
                     !.outstandingPriorityList =
                         IF pJob.rateLimitObeyed THEN RemoveOutstandingPriority(@, pJob) ELSE @],
     broadcast |-> s.pendingJobCount > 0]

\* Scheduler::ReturnClient
ReturnClient(s, pJob) == [s EXCEPT !.RPCAvailableClients = Append(@, pJob.cl)]

\* Scheduler::Scheduler
Scheduler(RPCClients, maxOutstandingReadBytes, maxOutstandingWriteBytes, maxReadJobs, maxWriteJobs) ==
    [RPCAvailableClients |-> RPCClients,
     outstandingPriorityList |-> <<>>,
     seqNumRead |-> 0, seqNumWrite |-> 0, seqNumReadBytes |-> 0, seqNumWriteBytes |-> 0,
     outstandingReadBytes |-> 0, maxOutstandingReadBytes |-> maxOutstandingReadBytes,
     outstandingWriteBytes |-> 0, maxOutstandingWriteBytes |-> maxOutstandingWriteBytes,
     outstandingJobs |-> 0, maxOutstandingJobs |-> maxReadJobs + maxWriteJobs,
     outstandingReadJobs |-> 0, maxOutstandingReadJobs |-> maxReadJobs,
     outstandingWriteJobs |-> 0, maxOutstandingWriteJobs |-> maxWriteJobs,
     pendingJobCount |-> 0,
     clients |-> <<>>]

(***************************************************************************)
(* The configuration and the inputs of the storage scheduler.              *)
(***************************************************************************)
\* the read and write multiprogramming limits and the byte caps of the
\* configuration file
NFS_read_MPL == 1

NFS_write_MPL == 2

MaxReadBytes == 8

MaxWriteBytes == 4

\* the number of RPC handles and of worker threads: 7 beyond the limits, for
\* backup and for the requests that are neither reads nor writes
numClients == NFS_read_MPL + NFS_write_MPL + 7

\* the worker threads that are followed; the others never leave the wait for
\* a job
MaxWorkers == 2

\* the number of jobs submitted
MaxJobs == 3

\* the last reading of the clock
MaxTime == 1

Addrs == {1, 2}

RequestSizes == {2}

\* the requests a tenant can submit as the job with this id
SubmittedJobs(id) ==
    { Job(id, a, p, z) : a \in Addrs, p \in {"READ", "WRITE"}, z \in RequestSizes }
    \cup { Job(id, a, "GETATTR", 0) : a \in Addrs }

\* the updates of the tenants' parameters, made before the first request:
\* tenant 2 is given the lower priority, tenant 1 a token bucket
StorageUpdateArgs ==
    { << [s_addr |-> 2, priority |-> 1, rateLimitRates |-> <<>>, rateLimitBursts |-> <<>>],
         [s_addr |-> 1, priority |-> 0, rateLimitRates |-> <<RInt(1)>>,
          rateLimitBursts |-> <<RInt(1)>>] >> }

\* the class of a job
Class(pJob) ==
    IF IsReadRequest(pJob) THEN "read" ELSE IF IsWriteRequest(pJob) THEN "write" ELSE "immediate"

Classes == {"read", "write", "immediate"}

\* history: no work dispatched yet for a queue that became non-empty with
\* these tokens in the buckets
NoWork(tokens) == [all |-> RInt(0), obeyed |-> RInt(0), tokens |-> tokens]

NoneAfter == [reads |-> 0, readBytes |-> 0, writes |-> 0, writeBytes |-> 0]

\* the worker threads waiting on _availableJobsCV
Blocked == { w \in DOMAIN workerThreads : workerThreads[w].pc = "blocked" }

\* pthread_cond_signal wakes one waiting thread, when there is one
Signalled(threads) ==
    IF Blocked = {} THEN {threads}
    ELSE { [threads EXCEPT ![w] = [pc |-> "ready"]] : w \in Blocked }

\* pthread_cond_broadcast wakes every waiting thread
Broadcast(threads) ==
    [w \in DOMAIN threads |-> IF threads[w].pc = "blocked" THEN [pc |-> "ready"] ELSE threads[w]]

\* history: the job pJob of priority lower than the job a thread has
\* outstanding is counted against it
countAfter(thread, pJob) ==
    IF thread.pc = "run" /\ thread.pJob.priority < pJob.priority
    THEN [thread EXCEPT !.after.reads = @ + (IF IsReadRequest(pJob) THEN 1 ELSE 0),
                        !.after.readBytes = @ + (IF IsReadRequest(pJob) THEN pJob.requestSize ELSE 0),
                        !.after.writes = @ + (IF IsWriteRequest(pJob) THEN 1 ELSE 0),
                        !.after.writeBytes = @ + (IF IsWriteRequest(pJob) THEN pJob.requestSize ELSE 0)]
    ELSE thread

InitSS ==
    /\ now = 0
    /\ sched = Scheduler([k \in 1..numClients |-> k], MaxReadBytes, MaxWriteBytes,
                         NFS_read_MPL, NFS_write_MPL)
    /\ workerThreads = [w \in 1..MaxWorkers |-> [pc |-> "ready"]]
    /\ jobCount = 0
    /\ dispatched = [a \in Addrs |-> [k \in Classes |-> [id |-> 0, behind |-> 0]]]
    /\ dispatchedWork = [a \in Addrs |-> NoWork(<<>>)]

\* the clock advances
Tick ==
    /\ now < MaxTime
    /\ now' = now + 1
    /\ UNCHANGED <<sched, workerThreads, jobCount, dispatched, dispatchedWork, acVars, pcVars, lkVars, kaVars, esVars, dnVars, occVars, rvVars>>

\* storage_enforcer_update_svc: UpdateClient for the clients from the i-th on
RECURSIVE storage_enforcer_update_svc(_, _, _, _)
storage_enforcer_update_svc(s, argp, i, t) ==
    IF i > Len(argp) THEN s
    ELSE storage_enforcer_update_svc(
            UpdateClient(s, argp[i].s_addr, argp[i].priority, argp[i].rateLimitRates,
                         argp[i].rateLimitBursts, t),
            argp, i + 1, t)

StorageEnforcerUpdate ==
    /\ jobCount = 0 /\ now = 0
    /\ \E argp \in StorageUpdateArgs : sched' = storage_enforcer_update_svc(sched, argp, 1, now)
    /\ UNCHANGED <<now, workerThreads, jobCount, dispatched, dispatchedWork, acVars, pcVars, lkVars, kaVars, esVars, dnVars, occVars, rvVars>>

\* proxy_dispatch: a request is received and submitted; the tenants send
\* requests once their parameters are set
ProxyDispatch ==
    /\ jobCount < MaxJobs
    /\ DOMAIN sched.clients # {}
    /\ jobCount' = jobCount + 1
    /\ \E pJob \in SubmittedJobs(jobCount + 1) :
          \E r \in {AddJob(sched, pJob, now)} :
             /\ sched' = r.s
             /\ IF r.signal THEN workerThreads' \in Signalled(workerThreads)
                ELSE UNCHANGED workerThreads
             /\ dispatchedWork' =
                   IF r.signal
                   THEN [dispatchedWork EXCEPT
                            ![pJob.s_addr] = NoWork(r.s.clients[pJob.s_addr].rateLimitTokens)]
                   ELSE dispatchedWork
    /\ UNCHANGED <<now, dispatched, acVars, pcVars, lkVars, kaVars, esVars, dnVars, occVars, rvVars>>

\* worker_thread in GetNextJob: ScheduleJob, and the wait when it has no job
GetNextJob(w) ==
    /\ workerThreads[w].pc = "ready"
    /\ \E r \in {ScheduleJob(sched, now)} :
          /\ sched' = r.s
          /\ IF r.pJob = NULL
             THEN /\ workerThreads' = [workerThreads EXCEPT ![w] = [pc |-> "blocked"]]
                  /\ UNCHANGED <<dispatched, dispatchedWork>>
             ELSE /\ workerThreads' =
                        [v \in DOMAIN workerThreads |->
                            IF v = w THEN [pc |-> "run", pJob |-> r.pJob, after |-> NoneAfter]
                            ELSE countAfter(workerThreads[v], r.pJob)]
                  /\ dispatched' =
                        [dispatched EXCEPT ![r.pJob.s_addr][Class(r.pJob)] =
                            [id |-> r.pJob.id,
                             behind |-> Len(SelectSeq(r.s.clients[r.pJob.s_addr].pendingJobs,
                                                      LAMBDA j : Class(j) = Class(r.pJob)))]]
                  /\ dispatchedWork' =
                        [dispatchedWork EXCEPT ![r.pJob.s_addr] =
                            [@ EXCEPT !.all = RAdd(@, r.pJob.jobSize),
                                      !.obeyed = IF r.pJob.rateLimitObeyed
                                                 THEN RAdd(@, r.pJob.jobSize) ELSE @]]
    /\ UNCHANGED <<now, jobCount, acVars, pcVars, lkVars, kaVars, esVars, dnVars, occVars, rvVars>>

\* RunJob up to CompleteJob: the call to storage returns; when it failed on a
\* live connection RunJob returns without ReturnClient
RunJob(w) ==
    /\ workerThreads[w].pc = "run"
    /\ \E failed \in BOOLEAN :
          \E r \in {CompleteJob(sched, workerThreads[w].pJob)} :
             /\ sched' = r.s
             /\ workerThreads' =
                   [IF r.broadcast THEN Broadcast(workerThreads) ELSE workerThreads
                       EXCEPT ![w] = IF failed THEN [pc |-> "ready"]
                                     ELSE [pc |-> "completed", pJob |-> workerThreads[w].pJob]]
    /\ UNCHANGED <<now, jobCount, dispatched, dispatchedWork, acVars, pcVars, lkVars, kaVars, esVars, dnVars, occVars, rvVars>>

\* the rest of RunJob: ReturnClient, and the job is deleted
RunJobReturn(w) ==
    /\ workerThreads[w].pc = "completed"
    /\ sched' = ReturnClient(sched, workerThreads[w].pJob)
    /\ workerThreads' = [workerThreads EXCEPT ![w] = [pc |-> "ready"]]
    /\ UNCHANGED <<now, jobCount, dispatched, dispatchedWork, acVars, pcVars, lkVars, kaVars, esVars, dnVars, occVars, rvVars>>

NextSS ==
    \/ Tick
    \/ StorageEnforcerUpdate
    \/ ProxyDispatch
    \/ \E w \in 1..MaxWorkers : GetNextJob(w)
    \/ \E w \in 1..MaxWorkers : RunJob(w)
    \/ \E w \in 1..MaxWorkers : RunJobReturn(w)

(***************************************************************************)
(* Properties of the storage scheduler.                                    *)
(***************************************************************************)
\* the jobs of a class a tenant has pending
PendingOf(a, k) ==
    IF a \in DOMAIN sched.clients
    THEN { sched.clients[a].pendingJobs[i] :
              i \in { j \in DOMAIN sched.clients[a].pendingJobs :
                         Class(sched.clients[a].pendingJobs[j]) = k } }
    ELSE {}

\* C9: within one tenant, the jobs of one class (read, write, immediate) are
\* dispatched in the order of their submission: no job of the tenant and
\* class is still pending when a job submitted after it has been dispatched.
C9_ClassFifo ==
    \A a \in Addrs : \A k \in Classes :
        \A pJob \in PendingOf(a, k) : dispatched[a][k].id < pJob.id

\* a job was dispatched while a job of its tenant and class submitted after
\* it was pending, and that job is now the next of its class
C9_Witness ==
    \E a \in Addrs : \E k \in Classes :
        /\ dispatched[a][k].behind >= 1
        /\ \E pJob \in PendingOf(a, k) : pJob.id > dispatched[a][k].id

\* the threads whose job is outstanding and obeyed its rate limits
Outstanding ==
    { w \in DOMAIN workerThreads :
         workerThreads[w].pc = "run" /\ workerThreads[w].pJob.rateLimitObeyed }

\* C10: while a job of higher priority that obeyed its rate limits is
\* outstanding, of whatever class, at most maxOutstandingReadJobs reads and
\* maxOutstandingReadBytes read bytes of tenants of lower priority dispatched
\* after it are sent to storage, and likewise for writes.
C10_StarvationBound ==
    \A w \in Outstanding :
        /\ workerThreads[w].after.reads <= sched.maxOutstandingReadJobs
        /\ workerThreads[w].after.readBytes <= sched.maxOutstandingReadBytes
        /\ workerThreads[w].after.writes <= sched.maxOutstandingWriteJobs
        /\ workerThreads[w].after.writeBytes <= sched.maxOutstandingWriteBytes

\* the threads whose job is outstanding
Running == { w \in DOMAIN workerThreads : workerThreads[w].pc = "run" }

\* the caps on the outstanding jobs and bytes hold
withinCaps(s) ==
    /\ s.outstandingJobs <= s.maxOutstandingJobs
    /\ s.outstandingReadJobs <= s.maxOutstandingReadJobs
    /\ s.outstandingWriteJobs <= s.maxOutstandingWriteJobs
    /\ s.outstandingReadBytes <= s.maxOutstandingReadBytes \/ s.outstandingReadJobs = 1
    /\ s.outstandingWriteBytes <= s.maxOutstandingWriteBytes \/ s.outstandingWriteJobs = 1

\* dispatching pJob from s breaks no cap
hasRoom(s, pJob) ==
    /\ s.outstandingJobs < s.maxOutstandingJobs
    /\ IsReadRequest(pJob) =>
          /\ s.outstandingReadJobs < s.maxOutstandingReadJobs
          /\ \/ s.outstandingReadBytes + pJob.requestSize <= s.maxOutstandingReadBytes
             \/ s.outstandingReadJobs = 0
    /\ IsWriteRequest(pJob) =>
          /\ s.outstandingWriteJobs < s.maxOutstandingWriteJobs
          /\ \/ s.outstandingWriteBytes + pJob.requestSize <= s.maxOutstandingWriteBytes
             \/ s.outstandingWriteJobs = 0

C12_MaxFollowsImmediate ==
    sched.maxOutstandingJobs =
        NFS_read_MPL + NFS_write_MPL
        + Cardinality({ w \in Running : workerThreads[w].pJob.immediate })

\* an immediate job was dispatched and completed while another immediate job
\* is still outstanding
C12_Witness ==
    /\ \E w \in Running : workerThreads[w].pJob.immediate
    /\ \E w \in DOMAIN workerThreads :
          workerThreads[w].pc = "completed" /\ workerThreads[w].pJob.immediate

\* the job at the head of a tenant's queue fits in every token bucket
withinLimits(c) ==
    \A i \in DOMAIN c.rateLimitTokens : ~RGt(Head(c.pendingJobs).jobSize, c.rateLimitTokens[i])

\* the arbitration order: tenant c1 beats tenant c2
Beats(c1, c2) ==
    /\ c1.pendingJobs # <<>>
    /\ \/ c2.pendingJobs = <<>>
       \/ /\ c2.pendingJobs # <<>>
          /\ LET j1 == Head(c1.pendingJobs)
                 j2 == Head(c2.pendingJobs)
                 fcfs == j1.arrivalTime < j2.arrivalTime
             IN \/ j1.immediate /\ ~j2.immediate
                \/ /\ j1.immediate = j2.immediate
                   /\ \/ withinLimits(c1) /\ ~withinLimits(c2)
                      \/ /\ withinLimits(c1) /\ withinLimits(c2)
                         /\ \/ c1.priority < c2.priority
                            \/ c1.priority = c2.priority /\ fcfs
                      \/ ~withinLimits(c1) /\ ~withinLimits(c2) /\ fcfs

busyTime(c) == ConvertTimeToSeconds(now - c.lastOccupancyTime)

Holding == { w \in DOMAIN workerThreads : workerThreads[w].pc \in {"run", "completed"} }

\* C15: a dispatched job holds one RPC handle until it has completed: no
\* handle is held by two jobs or held and available at once, and the handles
\* available plus the handles held are the handles the pool was built with.
C15_HandlesConserved ==
    /\ \A v, w \in Holding : v # w => workerThreads[v].pJob.cl # workerThreads[w].pJob.cl
    /\ \A w \in Holding :
          \A i \in DOMAIN sched.RPCAvailableClients :
             sched.RPCAvailableClients[i] # workerThreads[w].pJob.cl
    /\ Len(sched.RPCAvailableClients) + Cardinality(Holding) = numClients

(***************************************************************************)
(* The locks of the storage enforcer.  A function is followed as the       *)
(* sequence of the operations it makes on the mutexes and the condition    *)
(* variables; where it branches it is the set of these sequences.          *)
(*                                                                         *)
(*   mutexes    for each mutex the thread that owns it and how many times  *)
(*              the thread has locked it                                   *)
(*   threadOps  for each thread the operations it has still to make in the *)
(*              function it is running                                     *)
(***************************************************************************)
\* the connections, by file descriptor
NumFds == 2

\* the connections that have their thread; the others are served by the main
\* thread
NumThreads == 1

\* the mutex of xprt_cache[fd]
mutex(fd) == <<"mutex", fd>>

xprt_mutex == <<"xprt_mutex", 0>>

schedulerMutex == <<"_schedulerMutex", 0>>

Mutexes == { mutex(fd) : fd \in 1..NumFds } \cup {xprt_mutex, schedulerMutex}

\* main: the mutexes of xprt_cache are PTHREAD_MUTEX_RECURSIVE
IsRecursive(m) == m[1] = "mutex"

NoThread == <<"none", 0>>

\* the thread of custom_svc_getreq_common_thread for a connection, the main
\* thread in custom_svc_run, a worker thread and the keep-alive thread
LockThreads ==
    { <<"custom_svc_getreq_common_thread", fd>> : fd \in 1..NumThreads }
    \cup { <<"custom_svc_run", 0>>, <<"worker_thread", 0>>, <<"KeepAliveThread", 0>> }

lock(m) == [op |-> "lock", m |-> m]

unlock(m) == [op |-> "unlock", m |-> m]

\* pthread_cond_wait on a condition variable with the mutex m
wait(m) == [op |-> "wait", m |-> m]

\* the second half of pthread_cond_wait: the mutex is taken again
wake(m) == [op |-> "wake", m |-> m]

\* the methods of Scheduler that lock _schedulerMutex for their whole body:
\* UpdateClient, GetOccupancy, GetNumPendingJobs, SubmitJob, CompleteJob,
\* ReturnClient, KeepAlive
Scheduler_locked == <<lock(schedulerMutex), unlock(schedulerMutex)>>

\* Scheduler::GetNextJob: ScheduleJob, after a wait for a job or at once
GetNextJob_locks ==
    { <<lock(schedulerMutex), unlock(schedulerMutex)>>,
      <<lock(schedulerMutex), wait(schedulerMutex), unlock(schedulerMutex)>> }

\* custom_xp_recv, custom_xp_stat, custom_xp_getargs, custom_xp_reply and
\* custom_xp_freeargs
custom_xp(fd) == <<lock(mutex(fd)), unlock(mutex(fd))>>

custom_xp_destroy(fd) ==
    <<lock(mutex(fd)), lock(xprt_mutex), unlock(xprt_mutex), unlock(mutex(fd))>>

\* proxy_dispatch: InitJob reads the arguments, SubmitJob
proxy_dispatch(fd) == custom_xp(fd) \o Scheduler_locked

\* RunJob after clnt_call: the reply is sent and the arguments are freed, or
\* the error is sent, or the connection is no longer the cached one
RunJob_locks(fd) ==
    { <<lock(mutex(fd))>> \o Scheduler_locked \o custom_xp(fd) \o custom_xp(fd)
          \o <<unlock(mutex(fd))>> \o Scheduler_locked \o Scheduler_locked,
      <<lock(mutex(fd))>> \o Scheduler_locked \o custom_xp(fd)
          \o <<unlock(mutex(fd))>> \o Scheduler_locked,
      <<lock(mutex(fd))>> \o Scheduler_locked
          \o <<unlock(mutex(fd))>> \o Scheduler_locked \o Scheduler_locked }

\* worker_thread: one turn of its loop
worker_thread ==
    { g \o r : g \in GetNextJob_locks, r \in UNION { RunJob_locks(fd) : fd \in 1..NumFds } }

\* custom_svc_getreq_common_thread: the connection is not cached, or one
\* turn of the loops: a message is received or not, is dispatched or not, the
\* thread waits for the tenant's pending jobs to go down or not, and then
\* waits for the main thread
custom_svc_getreq_common_thread(fd) ==
    { <<lock(mutex(fd)), unlock(mutex(fd))>> }
    \cup { <<lock(mutex(fd))>> \o custom_xp(fd) \o d \o Scheduler_locked \o w \o custom_xp(fd)
              \o <<lock(xprt_mutex), unlock(xprt_mutex), wait(mutex(fd)), unlock(mutex(fd))>> :
           d \in {<<>>, proxy_dispatch(fd)}, w \in {<<>>, <<wait(mutex(fd))>>} }

\* custom_svc_getreq_poll for one descriptor with input: the descriptor is
\* invalid, the connection died, the connection is handed to its thread, or
\* it is not cached and svc_getreq_common dispatches the request
custom_svc_getreq_poll(fd) ==
    { <<lock(mutex(fd)), unlock(mutex(fd))>>,
      <<lock(mutex(fd))>> \o custom_xp(fd) \o custom_xp_destroy(fd) \o <<unlock(mutex(fd))>>,
      <<lock(mutex(fd))>> \o custom_xp(fd)
          \o <<lock(xprt_mutex), unlock(xprt_mutex), unlock(mutex(fd))>>,
      <<lock(mutex(fd))>> \o Scheduler_locked \o <<unlock(mutex(fd))>> }

\* a variant that keeps xprt_mutex while it goes through the descriptors
custom_svc_run_nested ==
    { <<lock(xprt_mutex)>> \o p \o <<unlock(xprt_mutex)>> :
         p \in { <<lock(mutex(fd)), unlock(mutex(fd))>> : fd \in 1..NumFds } }

\* custom_svc_run: one turn of its loop
custom_svc_run ==
    { <<lock(xprt_mutex), unlock(xprt_mutex)>> }
    \cup { <<lock(xprt_mutex), unlock(xprt_mutex)>> \o p :
              p \in UNION { custom_svc_getreq_poll(fd) : fd \in 1..NumFds } }

\* the function a thread runs
Program(t) ==
    IF t[1] = "custom_svc_getreq_common_thread" THEN custom_svc_getreq_common_thread(t[2])
    ELSE IF t[1] = "custom_svc_run" THEN custom_svc_run
    ELSE IF t[1] = "worker_thread" THEN worker_thread
    ELSE {Scheduler_locked}

InitLK ==
    /\ mutexes = [m \in Mutexes |-> [owner |-> NoThread, count |-> 0]]
    /\ threadOps = [t \in LockThreads |-> <<>>]

\* a thread enters its function, or the next turn of its loop
Enter(t) ==
    /\ threadOps[t] = <<>>
    /\ \E ops \in Program(t) : threadOps' = [threadOps EXCEPT ![t] = ops]
    /\ UNCHANGED <<mutexes, acVars, pcVars, ssVars, kaVars, esVars, dnVars, occVars, rvVars>>

\* pthread_mutex_lock returns when the mutex is free, or when the mutex is
\* recursive and the thread owns it
pthread_mutex_lock(t) ==
    /\ threadOps[t] # <<>>
    /\ Head(threadOps[t]).op = "lock"
    /\ LET m == Head(threadOps[t]).m
       IN /\ \/ mutexes[m].owner = NoThread
             \/ mutexes[m].owner = t /\ IsRecursive(m)
          /\ mutexes' = [mutexes EXCEPT ![m] = [owner |-> t, count |-> @.count + 1]]
    /\ threadOps' = [threadOps EXCEPT ![t] = Tail(@)]
    /\ UNCHANGED <<acVars, pcVars, ssVars, kaVars, esVars, dnVars, occVars, rvVars>>

pthread_mutex_unlock(t) ==
    /\ threadOps[t] # <<>>
    /\ Head(threadOps[t]).op = "unlock"
    /\ LET m == Head(threadOps[t]).m
       IN mutexes' = [mutexes EXCEPT ![m] = [owner |-> IF @.count = 1 THEN NoThread ELSE @.owner,
                                              count |-> @.count - 1]]
    /\ threadOps' = [threadOps EXCEPT ![t] = Tail(@)]
    /\ UNCHANGED <<acVars, pcVars, ssVars, kaVars, esVars, dnVars, occVars, rvVars>>

\* pthread_cond_wait releases the mutex and blocks on the condition variable
pthread_cond_wait(t) ==
    /\ threadOps[t] # <<>>
    /\ Head(threadOps[t]).op = "wait"
    /\ LET m == Head(threadOps[t]).m
       IN /\ mutexes' = [mutexes EXCEPT ![m] = [owner |-> IF @.count = 1 THEN NoThread ELSE @.owner,
                                                 count |-> @.count - 1]]
          /\ threadOps' = [threadOps EXCEPT ![t] = <<wake(m)>> \o Tail(@)]
    /\ UNCHANGED <<acVars, pcVars, ssVars, kaVars, esVars, dnVars, occVars, rvVars>>

\* pthread_cond_wait returns: the thread was signalled, or woke up
\* spuriously, and has the mutex again
pthread_cond_wake(t) ==
    /\ threadOps[t] # <<>>
    /\ Head(threadOps[t]).op = "wake"
    /\ LET m == Head(threadOps[t]).m
       IN /\ mutexes[m].owner = NoThread
          /\ mutexes' = [mutexes EXCEPT ![m] = [owner |-> t, count |-> 1]]
    /\ threadOps' = [threadOps EXCEPT ![t] = Tail(@)]
    /\ UNCHANGED <<acVars, pcVars, ssVars, kaVars, esVars, dnVars, occVars, rvVars>>

NextLK ==
    \/ \E t \in LockThreads : Enter(t)
    \/ \E t \in LockThreads : pthread_mutex_lock(t)
    \/ \E t \in LockThreads : pthread_mutex_unlock(t)
    \/ \E t \in LockThreads : pthread_cond_wait(t)
    \/ \E t \in LockThreads : pthread_cond_wake(t)

(***************************************************************************)
(* Properties of the locks.                                                *)
(***************************************************************************)
\* the mutexes a thread owns
Owned(t) == { m \in Mutexes : mutexes[m].owner = t }

\* the mutex a thread is about to take and does not own yet
Wanted(t) ==
    IF threadOps[t] # <<>> /\ Head(threadOps[t]).op \in {"lock", "wake"}
          /\ ~(mutexes[Head(threadOps[t]).m].owner = t /\ IsRecursive(Head(threadOps[t]).m))
    THEN {Head(threadOps[t]).m} ELSE {}

\* the thread t waits for the thread u to release a mutex
WaitsFor(t, u) == \E m \in Wanted(t) : mutexes[m].owner = u

\* the thread that owns the mutex the thread t is about to take
Awaited(t) == IF Wanted(t) = {} THEN NoThread ELSE mutexes[Head(threadOps[t]).m].owner

\* the thread u is reached from t in at most n steps of WaitsFor
RECURSIVE WaitsChain(_, _, _)
WaitsChain(t, u, n) ==
    /\ n > 0
    /\ Awaited(t) # NoThread
    /\ \/ Awaited(t) = u
       \/ WaitsChain(Awaited(t), u, n - 1)

\* C16: the mutexes are taken in one order: a thread that takes the mutex of a
\* connection holds neither xprt_mutex nor the mutex of the scheduler, and a
\* thread that holds one of these two takes no other mutex; so no threads wait
\* for each other's mutexes in a cycle.
C16_LockOrder ==
    /\ \A t \in LockThreads :
          Wanted(t) # {} => Owned(t) \cap {xprt_mutex, schedulerMutex} = {}
    /\ \A t \in LockThreads : ~WaitsChain(t, t, Cardinality(LockThreads))

\* a worker thread holds the mutex of a connection and waits for the mutex of
\* the scheduler, which the keep-alive thread holds, while the thread of the
\* connection waits for the mutex of its connection and the main thread
\* holds the mutex of another connection and xprt_mutex
C16_Witness ==
    \E fd \in 1..NumThreads :
       /\ mutexes[mutex(fd)].owner = <<"worker_thread", 0>>
       /\ WaitsFor(<<"worker_thread", 0>>, <<"KeepAliveThread", 0>>)
       /\ WaitsFor(<<"custom_svc_getreq_common_thread", fd>>, <<"worker_thread", 0>>)
       /\ \E fd2 \in 1..NumFds :
             /\ fd2 # fd
             /\ Owned(<<"custom_svc_run", 0>>) = {mutex(fd2), xprt_mutex}

(***************************************************************************)
(* Properties of the compactor, on the engine states the admission service *)
(* reaches.                                                                *)
(***************************************************************************)
\* the shaper curve and the priority of every flow
shaperParameters(e) ==
    [f \in DOMAIN e.flows |->
        [shaperCurve |-> e.flows[f].shaperCurve, priority |-> e.flows[f].priority]]

\* C17: whatever clients were added or deleted, the first calcFlowLatency, for
\* any flow, leaves the affected set empty and the shaper curves and
\* priorities of one re-optimization; every calcFlowLatency after it, for any
\* flow, finds the affected set empty, so does not re-optimize, and leaves
\* the shaper curves and the priorities as they are.
C17_LazyReoptimization ==
    \A f \in DOMAIN nc.flows :
       LET first(e1) ==
               /\ e1.affected = {}
               /\ shaperParameters(e1)
                     = shaperParameters(IF nc.affected # {} THEN calcShaperParameters(nc) ELSE nc)
               /\ \A g \in DOMAIN e1.flows :
                     LET later(e2) ==
                             /\ e2.affected = {}
                             /\ shaperParameters(e2) = shaperParameters(e1)
                     IN later(WorkloadCompactor_calcFlowLatency(e1, g))
       IN first(WorkloadCompactor_calcFlowLatency(nc, f))

\* a client was deleted and the re-optimization that is due changes the
\* priority of a flow that remains
C17_Witness ==
    /\ nc.affected # {}
    /\ \E f \in DOMAIN nc.flows :
          calcShaperParameters(nc).flows[f].priority # nc.flows[f].priority

\* the clients that share a queue, directly or through other clients, with
\* the clients of S
RECURSIVE groupOf(_, _)
groupOf(e, S) ==
    LET T == S \cup { d \in DOMAIN e.clients :
                         \E c \in S : ClientQueueIds(e, c) \cap ClientQueueIds(e, d) # {} }
    IN IF T = S THEN S ELSE groupOf(e, T)

\* the priorities the flows of a set of clients carry
prioritiesOf(e, S) == { e.flows[f].priority : f \in GroupFlowIds(e, S) }

\* the engine once the re-optimization that is due has run
reoptimized(e) == IF e.affected # {} THEN calcShaperParameters(e) ELSE e

\* C18: after a re-optimization the priorities inside each group of clients
\* are the dense rank of the distinct SLOs, from 0: all the flows of a client
\* carry one priority, a smaller SLO has a smaller priority, equal SLOs have
\* equal priorities, and the priorities used are 0..k-1 for k distinct SLOs.
C18_DenseRank ==
    LET ranked(e) ==
            \A c \in DOMAIN e.clients :
               LET G == groupOf(e, {c})
               IN /\ Cardinality(prioritiesOf(e, {c})) = 1
                  /\ \A d \in G :
                        /\ RLt(e.clients[c].SLO, e.clients[d].SLO)
                              => \A p \in prioritiesOf(e, {c}) : \A q \in prioritiesOf(e, {d}) : p < q
                        /\ e.clients[c].SLO = e.clients[d].SLO
                              => prioritiesOf(e, {c}) = prioritiesOf(e, {d})
                  /\ prioritiesOf(e, G) = 0..(Cardinality({ e.clients[d].SLO : d \in G }) - 1)
    IN ranked(reoptimized(nc))

\* a re-optimization is due for a group of clients with two SLOs, and it
\* changes the priority of a flow
C18_Witness ==
    /\ nc.affected # {}
    /\ \E c \in DOMAIN nc.clients :
          /\ ClientQueueIds(nc, c) \cap nc.affected # {}
          /\ Cardinality({ nc.clients[d].SLO : d \in groupOf(nc, {c}) }) >= 2
          /\ prioritiesOf(nc, {c}) # prioritiesOf(calcShaperParameters(nc), {c})

\* the clients of the catalogue the validation lets in next to those held
Addable(e) ==
    { k \in 1..NumClients : checkClientInfos(e, JArr(<<ClientInfoOf(k)>>)) = "SUCCESS" }

\* C19: when the linear program of a group of clients has no solution, every
\* flow of the group has the shaper curve (0, 0) and the priority of its
\* client's SLO, the latency computed for it is +infinity, and so the latency
\* of its client is above the SLO, which the admission check refuses.
C19_InfeasibleRejected ==
    \A k \in Addable(nc) :
       LET refused(e) ==
               \A c \in DOMAIN e.clients :
                  ~solve(e, groupOf(e, {c})) =>
                     /\ \A f \in Range(e.clients[c].flowIds) :
                           /\ e.flows[f].shaperCurve = ZeroArrivalCurve
                           /\ e.flows[f].priority =
                                 Cardinality({ e.clients[d].SLO : d \in groupOf(e, {c}) }
                                             \cap { D \in { e.clients[d].SLO : d \in DOMAIN e.clients } :
                                                       RLt(D, e.clients[c].SLO) })
                           /\ DNC_calcFlowLatency(e, f) = Inf
                     /\ ~RLe(ClientLatencyIn(e, c), e.clients[c].SLO)
       IN refused(calcShaperParameters(WorkloadCompactor_addClient(nc, ClientInfoOf(k))))

\* what the queries of the engine return once the re-optimization that is due
\* has run: the clients, the flows of each queue, and for every flow its
\* shaper curve, its priority and its computed latency
observable(e) ==
    LET seen(r) ==
            [clients |-> [c \in DOMAIN r.clients |->
                             [name |-> r.clients[c].name, SLO |-> r.clients[c].SLO,
                              flowIds |-> r.clients[c].flowIds]],
             flows |-> [f \in DOMAIN r.flows |->
                           [name |-> r.flows[f].name, clientId |-> r.flows[f].clientId,
                            queueIds |-> r.flows[f].queueIds]],
             queues |-> r.queues,
             parameters |-> shaperParameters(r),
             latency |-> [f \in DOMAIN r.flows |-> DNC_calcFlowLatency(r, f)]]
    IN seen(reoptimized(e))

\* C20: a client that is added and then deleted, with or without a query of
\* its latency in between, leaves an engine that answers every query as the
\* engine before the add: the same clients, flows and flows of each queue,
\* and for every flow the same shaper curve, priority and computed latency.
C20_AddThenDelete ==
    \A k \in Addable(nc) :
       LET clientId == IdOf(ClientNames, ClientInfoOf(k).name)
           same(e1) ==
               /\ observable(WorkloadCompactor_delClient(e1, clientId)) = observable(nc)
               /\ observable(WorkloadCompactor_delClient(NC_calcClientLatency(e1, clientId), clientId))
                     = observable(nc)
       IN same(WorkloadCompactor_addClient(nc, ClientInfoOf(k)))

\* the engine holds a client, and a client can be added that changes the
\* priority of one of its flows for as long as it is there
C20_Witness ==
    /\ nc.affected = {}
    /\ \E k \in Addable(nc) : \E f \in DOMAIN nc.flows :
          reoptimized(WorkloadCompactor_addClient(nc, ClientInfoOf(k))).flows[f].priority
             # nc.flows[f].priority

(***************************************************************************)
(* Properties of what the admission service sends to the enforcers.        *)
(***************************************************************************)
\* the parameters of a flow in the engine once the re-optimization that is
\* due has run, as a priority and a rate-limit list
optimizedParameters(e, f) ==
    LET flow(r) == [priority |-> r.flows[f].priority,
                    rateLimiters |-> <<[rate |-> r.flows[f].shaperCurve.r,
                                        burst |-> r.flows[f].shaperCurve.b]>>]
    IN flow(reoptimized(e))

\* C21: when addClients admits a batch, on every admit path, the enforcer of
\* each flow of the batch holds the priority and the rate-limit list of the
\* re-optimized topology that includes the batch.
C21_OptimizedPushed ==
    (/\ acCall.op = "addClients" /\ acResult.status = "SUCCESS" /\ acResult.admitted
     /\ acCall.delivery = "delivered") =>
        \A c \in acCall.batch : \A f \in Range(nc.clients[c].flowIds) :
           enforcer[nc.flows[f].name] = optimizedParameters(nc, f)

\* the hops the fast first fit looks at: every flow of a client of the batch
\* that is not marked admitted, with every queue on its path
uncheckedHops(infos) ==
    UNION { UNION { { [flow |-> infos[i].flows.arr[j], queue |-> infos[i].flows.arr[j].queues.arr[k]] :
                      k \in DOMAIN infos[i].flows.arr[j].queues.arr } :
                    j \in DOMAIN infos[i].flows.arr } :
            i \in { n \in DOMAIN infos : ~(isMember(infos[n], "admitted") /\ infos[n].admitted) } }

\* the arrival rate of the flow plus the shaper rates of the flows on the queue
hopLoad(e, h) ==
    LET q == e.queues[IdOf(QueueNames, h.queue)]
        a == h.flow.arrivalInfo.arr
    IN RAdd(RInt(a[Len(a)].slope),
            RSumSeq([n \in DOMAIN q.flows |-> e.flows[q.flows[n].flowId].shaperCurve.r]))

\* some hop has a load above margin times the bandwidth of its queue
exceeds(e, infos, margin) ==
    \E h \in uncheckedHops(infos) :
       RGt(hopLoad(e, h), RMul(margin, e.queues[IdOf(QueueNames, h.queue)].bandwidth))

\* a flow on the queue of some hop has the shaper curve (0, 0): no optimization
\* has given it one yet, or the program of its group had no solution
unshaped(e, infos) ==
    \E h \in uncheckedHops(infos) :
       \E n \in DOMAIN e.queues[IdOf(QueueNames, h.queue)].flows :
          LET c == e.flows[e.queues[IdOf(QueueNames, h.queue)].flows[n].flowId].shaperCurve
          IN c.r = RInt(0) /\ c.b = RInt(0)

\* the step is a call of addClients with fastFirstFit and a batch that passed the validation
fastFirstFitCall ==
    /\ acCalls' = acCalls + 1
    /\ acCall'.op = "addClients" /\ ~acCall'.invalid /\ acCall'.fastFirstFit

\* the call was rejected at once: nothing was added and nothing optimized
rejectedAtOnce ==
    /\ acResult' = [status |-> "SUCCESS", admitted |-> FALSE]
    /\ nc' = nc /\ clientInfoStore' = clientInfoStore /\ enforcer' = enforcer

\* the clients of the batch were added to the engine and the batch was
\* decided as it is without fastFirstFit: by the latency check, or by the
\* marks of its clients
decidedByCheck ==
    /\ acCall'.added
    /\ acResult'.admitted <=> (acCall'.override \/ acCall'.fits)

\* C22 as stated: with fastFirstFit, addClients rejects at once, adding no
\* client and running no optimization, if the load of some hop of a client not
\* marked admitted exceeds 0.999 times the bandwidth of the queue; a load at or
\* below that on every hop never causes the early rejection.
C22_EarlyReject ==
    [][fastFirstFitCall =>
          IF exceeds(nc, acCall'.infos, Margin) THEN ~acCall'.added /\ rejectedAtOnce
          ELSE decidedByCheck]_acVars

\* C22: with fastFirstFit, addClients rejects at once, adding no client and
\* running no optimization, exactly when no flow on the queue of a hop of a
\* client not marked admitted has the shaper curve (0, 0) and the load of some
\* such hop exceeds 0.999999 times the bandwidth of its queue; otherwise the
\* clients are added and the batch is decided as it is without fastFirstFit.
\* Clients marked admitted contribute no hop.
C22_EarlyRejectShaped ==
    [][fastFirstFitCall =>
          IF ~unshaped(nc, acCall'.infos) /\ exceeds(nc, acCall'.infos, OverloadMargin)
          THEN ~acCall'.added /\ rejectedAtOnce
          ELSE decidedByCheck]_acVars

\* a call with fastFirstFit was rejected at once: the batch has a client not
\* marked admitted whose load exceeds the bandwidth of a queue that holds a
\* flow of another client, and a client marked admitted that was skipped
C22_Witness ==
    /\ acCall.op = "addClients" /\ ~acCall.invalid /\ acCall.fastFirstFit
    /\ acResult = [status |-> "SUCCESS", admitted |-> FALSE]
    /\ acCall.batch \cap DOMAIN nc.clients = {}
    /\ ~unshaped(nc, acCall.infos) /\ exceeds(nc, acCall.infos, OverloadMargin)
    /\ \E h \in uncheckedHops(acCall.infos) : nc.queues[IdOf(QueueNames, h.queue)].flows # <<>>
    /\ \E i \in DOMAIN acCall.infos : isAdmitted(acCall.infos[i])

\* C23: a call of addClients whose parameters do not reach the enforcer (the
\* enforcer cannot be reached, or the update returns an error) returns what
\* the call returns when they do, admitted = true for a batch that fits,
\* leaves the engine and the stored client records as that call leaves them,
\* and the admission service keeps running.
C23_PushFailureIgnored ==
    [][(/\ acCalls' = acCalls + 1
        /\ acCall'.op = "addClients" /\ ~acCall'.invalid
        /\ acCall'.delivery \in {"failed", "unreachable"})
        => LET same(o) == /\ acRunning'
                          /\ acResult' = o.result
                          /\ nc' = o.nc
                          /\ clientInfoStore' = o.store
           IN same(admission_controller_add_clients_svc(nc, clientInfoStore, enforcer,
                                                        [ok |-> TRUE, json |-> JArr(acCall'.infos)],
                                                        acCall'.fastFirstFit, "delivered"))]_acVars

(***************************************************************************)
(* The pool of RPC handles.  One tenant without rate limits submits        *)
(* requests and one worker thread forwards them, while the keep-alive      *)
(* thread pings the handles of the pool; the clock is not followed, no     *)
(* decision of the scheduler depends on it here.                           *)
(***************************************************************************)
\* the number of requests submitted
MaxRequests == 11

\* Scheduler::KeepAlive: the available handles whose NULL request fails are erased
KeepAlive(s, failing) ==
    [s EXCEPT !.RPCAvailableClients = SelectSeq(@, LAMBDA cl : cl \notin failing)]

\* the handles whose NULL request fails: none, the one used last, or all of
\* them while storage cannot be reached
PingFailures(s) ==
    LET avail == s.RPCAvailableClients
    IN {{}, Range(avail)} \cup (IF avail = <<>> THEN {} ELSE {{avail[Len(avail)]}})

InitKA ==
    /\ poolSched = Scheduler([k \in 1..numClients |-> k], MaxReadBytes, MaxWriteBytes,
                             NFS_read_MPL, NFS_write_MPL)
    /\ poolThread = [pc |-> "ready"]
    /\ poolJobs = 0

\* proxy_dispatch: a READ request is received and submitted
PoolSubmitJob ==
    /\ poolJobs < MaxRequests
    /\ poolJobs' = poolJobs + 1
    /\ \E z \in RequestSizes :
          poolSched' = AddJob(poolSched, Job(poolJobs + 1, 1, "READ", z), 0).s
    /\ UNCHANGED <<poolThread, acVars, pcVars, ssVars, lkVars, esVars, dnVars, occVars, rvVars>>

\* worker_thread in GetNextJob: ScheduleJob releases a job with a handle
PoolGetNextJob ==
    /\ poolThread.pc = "ready"
    /\ \E r \in {ScheduleJob(poolSched, 0)} :
          /\ r.pJob # NULL
          /\ poolSched' = r.s
          /\ poolThread' = [pc |-> "run", pJob |-> r.pJob]
    /\ UNCHANGED <<poolJobs, acVars, pcVars, ssVars, lkVars, esVars, dnVars, occVars, rvVars>>

\* RunJob: the call to storage returns; when it failed on a live connection
\* RunJob returns after CompleteJob, otherwise ReturnClient follows
PoolRunJob ==
    /\ poolThread.pc = "run"
    /\ \E failed \in BOOLEAN :
          \E r \in {CompleteJob(poolSched, poolThread.pJob)} :
             /\ poolSched' = IF failed THEN r.s ELSE ReturnClient(r.s, poolThread.pJob)
             /\ poolThread' = [pc |-> "ready"]
    /\ UNCHANGED <<poolJobs, acVars, pcVars, ssVars, lkVars, esVars, dnVars, occVars, rvVars>>

\* KeepAliveThread: a round of Scheduler::KeepAlive
KeepAliveThread ==
    /\ \E failing \in PingFailures(poolSched) : poolSched' = KeepAlive(poolSched, failing)
    /\ UNCHANGED <<poolThread, poolJobs, acVars, pcVars, ssVars, lkVars, esVars, dnVars, occVars, rvVars>>

NextKA == PoolSubmitJob \/ PoolGetNextJob \/ PoolRunJob \/ KeepAliveThread

\* C24: whatever calls to storage have failed, the pool is refilled, so a job
\* that is pending can still be dispatched: when a job is pending and no job
\* holds a handle, the pool has a handle for it.
C24_PendingDispatchable ==
    (poolSched.pendingJobCount > 0 /\ poolThread.pc = "ready") => poolSched.RPCAvailableClients # <<>>

\* the immediate jobs that are pending, each with its tenant and its place in
\* the queue of the tenant
PendingImmediate ==
    { <<a, i>> \in (DOMAIN sched.clients) \X (1..MaxJobs) :
         /\ i \in DOMAIN sched.clients[a].pendingJobs
         /\ sched.clients[a].pendingJobs[i].immediate }

\* C25: an immediate job is never back-pressured: while an immediate job is
\* pending and an RPC handle is available, no cap on the outstanding jobs or
\* bytes, no starvation guard and no held-back job of its tenant stops the
\* scheduling step, which dispatches a job.
C25_ImmediateNotHeldBack ==
    (PendingImmediate # {} /\ sched.RPCAvailableClients # <<>>) => ScheduleJob(sched, now).pJob # NULL

(***************************************************************************)
(* The storage estimator on its own: a profile is loaded and estimateWork  *)
(* is called for requests of every size.                                   *)
(***************************************************************************)
MaxRequestSize == 7

\* the request sizes a profile can list
ProfiledSizes == {2, 4, 6}

\* two profiles: one whose bandwidths are proportional to the request size
\* (as in StorageSSDEstimatorTest) and one with a floor for reads and a flat
\* write bandwidth
ProfileEntry(profile, requestSize) ==
    IF profile = "proportional"
    THEN [requestSize |-> requestSize, readBandwidth |-> requestSize,
          writeBandwidth |-> requestSize \div 2]
    ELSE [requestSize |-> requestSize, readBandwidth |-> requestSize + 2,
          writeBandwidth |-> 3]

\* the bandwidthTable of an estimatorInfo: entries in increasing request size
EstimatorInfos ==
    { [type |-> "storageSSD",
       bandwidthTable |-> [i \in 1..Cardinality(S) |-> ProfileEntry(profile, SortedSeq(S)[i])]] :
         S \in (SUBSET ProfiledSizes) \ {{}}, profile \in {"proportional", "floor"} }

NoEstimateCall == [requestSize |-> -1, isReadRequest |-> FALSE, bandwidth |-> NaN,
                   work |-> NaN, asserted |-> FALSE]

InitES ==
    /\ pEst = [created |-> FALSE]
    /\ estCall = NoEstimateCall

\* Estimator::create with a storageSSD estimatorInfo
EstimatorCreate ==
    /\ ~pEst.created
    /\ \E estimatorInfo \in EstimatorInfos :
          pEst' = [created |-> TRUE] @@ StorageSSDEstimator(estimatorInfo)
    /\ UNCHANGED <<estCall, acVars, pcVars, ssVars, lkVars, kaVars, dnVars, occVars, rvVars>>

\* pEst->estimateWork(requestSize, isReadRequest); the assertion on the
\* bandwidth ends the process
EstimateWork ==
    /\ pEst.created
    /\ ~estCall.asserted
    /\ \E requestSize \in 0..MaxRequestSize, isReadRequest \in BOOLEAN :
       \E bw \in {bandwidth(pEst, requestSize, isReadRequest)} :
          estCall' = [requestSize |-> requestSize, isReadRequest |-> isReadRequest,
                      bandwidth |-> bw,
                      work |-> RDiv(RInt(requestSize), bw),
                      asserted |-> ~RGt(bw, RInt(0))]
    /\ UNCHANGED <<pEst, acVars, pcVars, ssVars, lkVars, kaVars, dnVars, occVars, rvVars>>

NextES == EstimatorCreate \/ EstimateWork

\* the table estimateWork has used in the last call
calledTable ==
    IF estCall.isReadRequest THEN pEst.readBandwidthTable ELSE pEst.writeBandwidthTable

\* the bandwidth the table gives to a request size: that of the smallest
\* entry below the table, that of the largest entry above it, and the linear
\* interpolation between the two adjacent entries inside it
tableBandwidth(bandwidthTable, requestSize) ==
    LET n == Len(bandwidthTable)
        inside(i) == /\ bandwidthTable[i].requestSize <= requestSize
                     /\ requestSize < bandwidthTable[i + 1].requestSize
        between(i) ==
            linearInterpolate(RInt(requestSize),
                              RInt(bandwidthTable[i].requestSize),
                              RInt(bandwidthTable[i + 1].requestSize),
                              bandwidthTable[i].bandwidth, bandwidthTable[i + 1].bandwidth)
    IN IF requestSize < bandwidthTable[1].requestSize THEN bandwidthTable[1].bandwidth
       ELSE IF requestSize >= bandwidthTable[n].requestSize THEN bandwidthTable[n].bandwidth
       ELSE between(CHOOSE i \in 1..(n - 1) : inside(i))

\* C26: the bandwidth used for a request is the linear interpolation between
\* the two adjacent table entries inside the table, the bandwidth of the
\* smallest entry below the table and that of the largest entry above it, and
\* the estimated work is the request size divided by that bandwidth.
C26_BandwidthByTable ==
    estCall.requestSize >= 0 =>
        /\ ~estCall.asserted
        /\ estCall.bandwidth = tableBandwidth(calledTable, estCall.requestSize)
        /\ estCall.work = RDiv(RInt(estCall.requestSize),
                               tableBandwidth(calledTable, estCall.requestSize))

(***************************************************************************)
(* The DNC library on its own, as DNCTestTwoHops uses it: four queues, the *)
(* flows go from Q0 or Q1 to Q2 or Q3, and every flow is added with its    *)
(* priority and its shaper curve.                                          *)
(***************************************************************************)
MaxFlows == 3

TwoHopBandwidth == 10

\* the queue lists A, B, C and D of the test: Q0 and Q1 are the ids 1 and 2,
\* Q2 and Q3 the ids 3 and 4
QueueLists == { <<1, 3>>, <<1, 4>>, <<2, 3>>, <<2, 4>> }

\* shaper curves with a rate below, at and above the bandwidth of a queue
ShaperCurves == { [r |-> RInt(r), b |-> RInt(2)] : r \in {4, TwoHopBandwidth, TwoHopBandwidth + 2} }

Algorithms == {"DNC_SIMPLE_ALGORITHM_AGGREGATE", "DNC_SIMPLE_ALGORITHM_HOP_BY_HOP"}

NoLatencyCall == [flowId |-> 0, latency |-> RInt(0), overcommitted |-> FALSE, crossOnly |-> FALSE]

InitDN ==
    /\ dnc = [created |-> FALSE]
    /\ dncCall = NoLatencyCall

\* new DNC(algorithm) and the four addQueue calls
DncNew ==
    /\ ~dnc.created
    /\ \E algorithm \in Algorithms :
          dnc' = [created |-> TRUE, algorithm |-> algorithm,
                  queues |-> [q \in 1..4 |-> [bandwidth |-> RInt(TwoHopBandwidth), flows |-> <<>>]],
                  flows |-> <<>>]
    /\ UNCHANGED <<dncCall, acVars, pcVars, ssVars, lkVars, kaVars, esVars, occVars, rvVars>>

\* the flow that initFlow of TestDNC makes: the shaper curve of the flow info
\* and the arrival curve of the same rate and burst
TestDNC_initFlow(queueIds, priority, shaperCurve) ==
    [queueIds |-> queueIds, priority |-> priority, latency |-> RInt(0), ignoreLatency |-> FALSE,
     arrivalCurve |-> <<PointSlope(RInt(0), RInt(0), Inf),
                        PointSlope(RInt(0), shaperCurve.b, shaperCurve.r)>>,
     shaperCurve |-> shaperCurve]

\* nc->addClient(clientInfo) with one flow
DncAddClient ==
    /\ dnc.created
    /\ Len(dnc.flows) < MaxFlows
    /\ \E queueIds \in QueueLists, priority \in {1, 2}, shaperCurve \in ShaperCurves :
       \E flowId \in {Len(dnc.flows) + 1} :
          dnc' = [dnc EXCEPT
                    !.flows = Append(@, TestDNC_initFlow(queueIds, priority, shaperCurve)),
                    !.queues = [q \in DOMAIN @ |->
                                  IF q = queueIds[1]
                                  THEN [@[q] EXCEPT !.flows = Append(@, [flowId |-> flowId, index |-> 0])]
                                  ELSE IF q = queueIds[2]
                                  THEN [@[q] EXCEPT !.flows = Append(@, [flowId |-> flowId, index |-> 1])]
                                  ELSE @[q]]]
    /\ UNCHANGED <<dncCall, acVars, pcVars, ssVars, lkVars, kaVars, esVars, occVars, rvVars>>

\* a leftover service curve was taken at a hop of the flow from a service
\* rate that is not greater than the competing arrival rate: the rates are
\* not negative, so this is the case when the leftover rate of the hop is not
\* positive
ownHopOvercommitted(e, algorithm, flowId) ==
    IF algorithm = "DNC_SIMPLE_ALGORITHM_AGGREGATE"
    THEN RLe(finalService(e, e.flows[flowId]).R, RInt(0))
    ELSE \E index \in 0..(Len(e.flows[flowId].queueIds) - 1) :
            RLe(calcServiceCurveAtQueue(e, flowId, index).R, RInt(0))

\* the same at the first hop of cross traffic in the two-hop analysis
crossHopOvercommitted(e, algorithm, flowId) ==
    /\ algorithm = "DNC_SIMPLE_ALGORITHM_AGGREGATE"
    /\ \E ids \in {firstQueueIds(e, e.flows[flowId])} :
       \E q \in DOMAIN ids :
          RLe(firstQueueServiceCurve(e, e.flows[flowId], q, ids[q]).R, RInt(0))

\* nc->calcFlowLatency(flowId)
DncCalcFlowLatency ==
    /\ dnc.created
    /\ \E flowId \in DOMAIN dnc.flows :
       \E own \in {ownHopOvercommitted(dnc, dnc.algorithm, flowId)} :
       \E cross \in {crossHopOvercommitted(dnc, dnc.algorithm, flowId)} :
          dncCall' = [flowId |-> flowId,
                      latency |-> calcFlowLatency(dnc, dnc.algorithm, flowId),
                      overcommitted |-> own \/ cross,
                      crossOnly |-> ~own /\ cross]
    /\ UNCHANGED <<dnc, acVars, pcVars, ssVars, lkVars, kaVars, esVars, occVars, rvVars>>

NextDN == DncNew \/ DncAddClient \/ DncCalcFlowLatency

\* C27: when the analysis of a flow takes a leftover service curve from a
\* service rate that is not greater than the competing arrival rate, at a hop
\* of the flow or at the first hop of cross traffic in the two-hop analysis,
\* the latency computed for the flow is +infinity.
C27_OvercommittedInfinite ==
    (dncCall.flowId # 0 /\ dncCall.overcommitted) => dncCall.latency = Inf

\* a success is recorded in the search that is under way
successRecorded ==
    /\ pcThread.pos = "waiting"
    /\ search.kind = "search"
    /\ g_bestWorkQueueIndex < Len(g_workQueue)

\* worker w ends an attempt that was in flight when a success was recorded
lateCompletion(w) ==
    /\ successRecorded
    /\ workers[w].pc = "rpc"
    /\ workers'[w].pc # "rpc"

\* C28 as stated: after the first success is recorded, the attempts in flight
\* run to completion and are undone on their replica, and their results do
\* not change which candidate is accepted.
C28_InFlightDiscarded ==
    [][\A w \in DOMAIN workers :
          lateCompletion(w) =>
              /\ pcThread'.pos = "waiting"
              /\ replicas'[w] = replicas[w]
              /\ g_bestWorkQueueIndex' = g_bestWorkQueueIndex]_pcVars

\* C28, amended: after the first success is recorded no candidate is handed
\* out any more; the attempts in flight run to completion while placeClient
\* waits and are undone on their replica; a success among them replaces the
\* recorded candidate when its work-queue index is lower, and changes nothing
\* otherwise.
C28_InFlightLowerWins ==
    [][\A w \in DOMAIN workers :
          lateCompletion(w) =>
              /\ pcThread'.pos = "waiting"
              /\ replicas'[w] = replicas[w]
              /\ g_nextWorkQueueIndex = Len(g_workQueue)
              /\ g_nextWorkQueueIndex' = Len(g_workQueue)
              /\ g_outstandingWork' = g_outstandingWork - 1
              /\ g_bestWorkQueueIndex' =
                    IF /\ search'.tried[workers[w].workQueueIndex] = "ok"
                       /\ workers[w].workQueueIndex < g_bestWorkQueueIndex
                    THEN workers[w].workQueueIndex
                    ELSE g_bestWorkQueueIndex]_pcVars

\* all attempts are over, and one that was in flight when the first success
\* was recorded has replaced it
C28_Witness ==
    /\ successRecorded
    /\ g_outstandingWork = 0
    /\ search.firstOk < Len(g_workQueue)
    /\ g_bestWorkQueueIndex < search.firstOk
    /\ search.tried[g_bestWorkQueueIndex] = "ok"

\* the head job of the tenant at s_addr passes every gate of ScheduleJob
passesGates(s, s_addr) ==
    /\ s.clients[s_addr].pendingJobs # <<>>
    /\ \E pJob \in {Head(s.clients[s_addr].pendingJobs)} :
          \/ pJob.immediate
          \/ ~ \/ s.outstandingJobs >= s.maxOutstandingJobs
               \/ IsReadRequest(pJob) /\ readHeldBack(s, s.clients[s_addr], pJob)
               \/ IsWriteRequest(pJob) /\ writeHeldBack(s, s.clients[s_addr], pJob)

\* C29: when a gate holds back the head job of the tenant chosen by the
\* arbitration, only that tenant is skipped: if another tenant has a head job
\* that passes every gate, the scheduling step dispatches a job of another
\* tenant rather than nothing.
C29_GatedTenantSkipped ==
    (sched.pendingJobCount > 0 /\ sched.RPCAvailableClients # <<>>) =>
        \A f \in {FindBestClient(sched, now)} :
            (/\ ~passesGates(f.s, f.best)
             /\ \E a \in (DOMAIN f.s.clients) \ {f.best} : passesGates(f.s, a))
            => /\ ScheduleJob(sched, now).pJob # NULL
               /\ ScheduleJob(sched, now).pJob.s_addr # f.best

\* C30: no job stays dispatchable while a worker stays blocked on the
\* condition variable: whenever the scheduling step would dispatch a job and a
\* worker is waiting, a worker has been woken and is about to run the
\* scheduling step.
C30_WaitingWorkerWoken ==
    (Blocked # {} /\ ScheduleJob(sched, now).pJob # NULL) =>
        \E w \in DOMAIN workerThreads : workerThreads[w].pc = "ready"

\* the clients with a flow on an affected queue
touchedClients(e) ==
    { c \in DOMAIN e.clients : ClientQueueIds(e, c) \cap e.affected # {} }

\* the engines a re-optimization can run on: the engine as it is, and the
\* engine with one more client of the catalogue added
dueEngines(e) ==
    {e} \cup { WorkloadCompactor_addClient(e, ClientInfoOf(k)) : k \in Addable(e) }

\* the groups of a re-optimization are the connected components that contain
\* an affected queue
groupsAreComponents(e, groups) ==
    /\ \A i \in DOMAIN groups : \A j \in DOMAIN groups :
          i # j => groups[i] \cap groups[j] = {}
    /\ \A i \in DOMAIN groups :
          /\ groupOf(e, groups[i]) = groups[i]
          /\ groups[i] # {} => \E c \in touchedClients(e) : groups[i] = groupOf(e, {c})
    /\ \A c \in touchedClients(e) :
          Cardinality({ i \in DOMAIN groups : c \in groups[i] }) = 1
    /\ \A c \in (DOMAIN e.clients) \ groupOf(e, touchedClients(e)) :
          /\ \A i \in DOMAIN groups : c \notin groups[i]
          /\ \A f \in Range(e.clients[c].flowIds) :
                shaperParameters(calcShaperParameters(e))[f] = shaperParameters(e)[f]

\* C31: the client groups built by a re-optimization are the connected
\* components, under "two clients have flows on a common queue" taken
\* transitively, that contain an affected queue: the groups are pairwise
\* disjoint, each group is closed under the relation, every client with a
\* flow on an affected queue is in exactly one group, and a client that is
\* not connected to an affected queue is in no group and keeps its shaper
\* curves and its priority.
C31_GroupsAreComponents ==
    \A e \in dueEngines(nc) : groupsAreComponents(e, clientGroups(e))

\* a re-optimization is due whose group holds several clients, one of them
\* with flows on two queues, and another is due that leaves a client with
\* optimized parameters in no group
C31_Witness ==
    /\ \E e \in dueEngines(nc) :
          /\ e.affected # {}
          /\ \E i \in DOMAIN clientGroups(e) :
                /\ Cardinality(clientGroups(e)[i]) >= 2
                /\ \E c \in clientGroups(e)[i] : Cardinality(ClientQueueIds(e, c)) >= 2
    /\ \E e \in dueEngines(nc) :
          /\ e.affected # {}
          /\ \E c \in (DOMAIN e.clients) \ groupOf(e, touchedClients(e)) :
                \E f \in Range(e.clients[c].flowIds) : e.flows[f].shaperCurve # ZeroArrivalCurve

\* the FlowIndex entries one visit reaches from the entries of V: the entries
\* of the queues of a visited flow from its hop on that belong to a flow
\* whose priority is not higher than that of the visited flow
reachedFrom(e, V) ==
    UNION { UNION { { x \in Range(e.queues[e.flows[v.flowId].queueIds[h]].flows) :
                        e.flows[x.flowId].priority >= e.flows[v.flowId].priority } :
                    h \in (v.index + 1)..Len(e.flows[v.flowId].queueIds) } :
            v \in V }

\* the least set that holds V and what is reached from it
RECURSIVE affectedClosure(_, _)
affectedClosure(e, V) ==
    IF reachedFrom(e, V) \subseteq V THEN V ELSE affectedClosure(e, V \cup reachedFrom(e, V))

\* the flows of a set of FlowIndex entries
markedFlows(V) == { v.flowId : v \in V }

\* the set checkLatency marks for the added flows of a sequence
markedFor(e, flowIds) == markClientFlowsFrom(e, {}, flowIds, 1)

\* C32: the flows whose latency is re-checked on admission are each added
\* flow from hop 0 and, recursively, every flow that shares a queue with a
\* visited flow at or after the hop of the visited flow and whose priority is
\* not higher than the propagated priority; a flow of higher priority is not
\* marked through that visit, and the traversal ends on every topology.
\* The marking reads the topology and the priorities alone, so every network
\* is looked at once, in the state before a latency is asked of it.
C32_AffectedClosure ==
    (dnc.created /\ dncCall = NoLatencyCall) =>
       \A f \in DOMAIN dnc.flows : \A g \in DOMAIN dnc.flows :
          \A added \in {IF f = g THEN <<f>> ELSE <<f, g>>} :
          \A marked \in {markedFor(dnc, added)} :
             /\ [flowId |-> f, index |-> 0] \in marked
             /\ marked = affectedClosure(dnc, { [flowId |-> a, index |-> 0] : a \in Range(added) })

\* one added flow reaches a flow at its second hop and so leaves out a flow
\* that shares only the first queue of that flow, and another added flow
\* leaves out a flow of higher priority on its first queue
C32_Witness ==
    /\ dnc.created
    /\ \E f \in DOMAIN dnc.flows : \E g \in DOMAIN dnc.flows : \E k \in DOMAIN dnc.flows :
          /\ [flowId |-> g, index |-> 1] \in markedFor(dnc, <<f>>)
          /\ [flowId |-> g, index |-> 0] \notin markedFor(dnc, <<f>>)
          /\ dnc.flows[k].queueIds[1] = dnc.flows[g].queueIds[1]
          /\ dnc.flows[k].priority >= dnc.flows[g].priority
          /\ k \notin markedFlows(markedFor(dnc, <<f>>))
    /\ \E f \in DOMAIN dnc.flows : \E g \in DOMAIN dnc.flows :
          /\ dnc.flows[g].queueIds[1] = dnc.flows[f].queueIds[1]
          /\ dnc.flows[g].priority < dnc.flows[f].priority
          /\ g \notin markedFlows(markedFor(dnc, <<f>>))

(***************************************************************************)
(* The occupancy of the queues: jobs are submitted and dispatched while    *)
(* the clock advances, and getOccupancy is called at any time.             *)
(***************************************************************************)
\* the last reading of the clock
MaxOccTime == 2

\* the number of jobs a queue holds at most
MaxOccJobs == 2

NoOccupancyCall == [s_addr |-> 0, occupancy |-> RInt(0), busy |-> 0, elapsed |-> 0]

InitOC ==
    /\ occNow = 0
    /\ occSched = Scheduler(<<1>>, MaxReadBytes, MaxWriteBytes, NFS_read_MPL, NFS_write_MPL)
    /\ occTruth = [a \in Addrs |-> [busy |-> 0, since |-> 0]]
    /\ occCall = NoOccupancyCall

\* the tenants whose queue is not empty
occBusy == { a \in DOMAIN occSched.clients : occSched.clients[a].pendingJobs # <<>> }

\* the clock advances
OccTick ==
    /\ occNow < MaxOccTime
    /\ occNow' = occNow + 1
    /\ occTruth' = [a \in Addrs |-> IF a \in occBusy THEN [occTruth[a] EXCEPT !.busy = @ + 1]
                                    ELSE occTruth[a]]
    /\ UNCHANGED <<occSched, occCall, acVars, pcVars, ssVars, lkVars, kaVars, esVars, dnVars, rvVars>>

\* the time from which the first getOccupancy of a tenant counts: the time
\* its client record is made
occSeen(s, truth, s_addr, t) ==
    IF s_addr \in DOMAIN s.clients THEN truth
    ELSE [truth EXCEPT ![s_addr] = [busy |-> 0, since |-> t]]

\* Scheduler::SubmitJob: AddJob under the lock
OccSubmitJob ==
    /\ \E s_addr \in Addrs :
          /\ s_addr \in DOMAIN occSched.clients => Len(occSched.clients[s_addr].pendingJobs) < MaxOccJobs
          /\ occSched' = AddJob(occSched, Job(1, s_addr, "GETATTR", 0), occNow).s
          /\ occTruth' = occSeen(occSched, occTruth, s_addr, occNow)
    /\ UNCHANGED <<occNow, occCall, acVars, pcVars, ssVars, lkVars, kaVars, esVars, dnVars, rvVars>>

\* worker_thread: GetNextJob takes a job off its queue, RunJob completes it
\* and returns its handle
OccWorker ==
    /\ \E r \in {ScheduleJob(occSched, occNow)} :
          /\ r.pJob # NULL
          /\ occSched' = ReturnClient(CompleteJob(r.s, r.pJob).s, r.pJob)
    /\ UNCHANGED <<occNow, occTruth, occCall, acVars, pcVars, ssVars, lkVars, kaVars, esVars, dnVars, rvVars>>

\* storage_enforcer_get_occupancy_svc
OccGetOccupancy ==
    /\ \E s_addr \in Addrs :
       \E truth \in {occSeen(occSched, occTruth, s_addr, occNow)} :
       \E r \in {GetOccupancy(occSched, s_addr, occNow)} :
          /\ occSched' = r.s
          /\ occCall' = [s_addr |-> s_addr, occupancy |-> r.occupancy,
                         busy |-> truth[s_addr].busy, elapsed |-> occNow - truth[s_addr].since]
          /\ occTruth' = [truth EXCEPT ![s_addr] = [busy |-> 0, since |-> occNow]]
    /\ UNCHANGED <<occNow, acVars, pcVars, ssVars, lkVars, kaVars, esVars, dnVars, rvVars>>

NextOC == OccTick \/ OccSubmitJob \/ OccWorker \/ OccGetOccupancy

\* C33: getOccupancy for a tenant returns the time the queue of the tenant
\* was non-empty since the previous getOccupancy call for the tenant, the
\* period under way included, divided by the time since that call; the
\* result lies in [0, 1], and every non-empty interval is counted in one
\* call, also when a call falls inside it.
C33_OccupancyRatio ==
    occCall.s_addr # 0 =>
       /\ occCall.occupancy = RDiv(RInt(occCall.busy), RInt(occCall.elapsed))
       /\ RGe(occCall.occupancy, RInt(0))
       /\ RLe(occCall.occupancy, RInt(1))

\* a client info of the catalogue with an empty flows array, and with its
\* first flow over an empty list of queues
emptyFlowsInfo(k) == setMember(ClientInfoOf(k), "flows", JArr(<<>>))

emptyPathInfo(k) ==
    withFlow(ClientInfoOf(k), setMember(ClientInfoOf(k).flows.arr[1], "queues", JArr(<<>>)))

\* addClients answers the batch of one client info with an error status and
\* changes no state
refusedUnchanged(clientInfo) ==
    \A fastFirstFit \in BOOLEAN :
    \A o \in {admission_controller_add_clients_svc(nc, clientInfoStore, enforcer,
                                                   [ok |-> TRUE, json |-> JArr(<<clientInfo>>)],
                                                   fastFirstFit, "delivered")} :
       /\ o.result.status # "SUCCESS"
       /\ o.nc = nc /\ o.store = clientInfoStore /\ o.enforcer = enforcer

\* C34: no client with an empty flows array and no flow with an empty queue
\* path is added to the engine: the validation of addClients refuses such a
\* client info, and addClients answers it with an error status and changes
\* no state.
C34_EmptyRefused ==
    \A k \in Addable(nc) :
       /\ checkClientInfos(nc, JArr(<<emptyFlowsInfo(k)>>)) # "SUCCESS"
       /\ checkClientInfos(nc, JArr(<<emptyPathInfo(k)>>)) # "SUCCESS"
       /\ refusedUnchanged(emptyFlowsInfo(k))
       /\ refusedUnchanged(emptyPathInfo(k))

(***************************************************************************)
(* The worker threads and the requests waiting for them.  Two tenants      *)
(* without rate limits submit finitely many requests; the worker threads   *)
(* take them in GetNextJob and forward them.  The clock is not followed.   *)
(***************************************************************************)
\* the write sizes of the requests: below the cap on the outstanding write
\* bytes, and a write of the size of the cap
WriteSizes == {2, MaxWriteBytes}

\* proxy_dispatch: a request is received and submitted
ProxyDispatchWrite ==
    /\ jobCount < MaxJobs
    /\ jobCount' = jobCount + 1
    /\ \E pJob \in { Job(jobCount + 1, a, "WRITE", z) : a \in Addrs, z \in WriteSizes }
                      \cup { Job(jobCount + 1, a, "GETATTR", 0) : a \in Addrs } :
          \E r \in {AddJob(sched, pJob, now)} :
             /\ sched' = r.s
             /\ IF r.signal THEN workerThreads' \in Signalled(workerThreads)
                ELSE UNCHANGED workerThreads
    /\ UNCHANGED <<now, dispatched, dispatchedWork, acVars, pcVars, lkVars, kaVars, esVars, dnVars, occVars, rvVars>>

NextWK ==
    \/ ProxyDispatchWrite
    \/ \E w \in 1..MaxWorkers : GetNextJob(w)
    \/ \E w \in 1..MaxWorkers : RunJob(w)
    \/ \E w \in 1..MaxWorkers : RunJobReturn(w)

\* a worker thread that is not waiting takes its next step: it is scheduled,
\* and the call to storage returns.  GetNextJob(w) is enabled exactly while
\* the thread is about to call it, so its weak fairness is that the thread
\* does not stay there for ever.
WorkersRun ==
    \A w \in 1..MaxWorkers :
        /\ []<>(workerThreads[w].pc # "ready")
        /\ WF_ssVars(RunJob(w))
        /\ WF_ssVars(RunJobReturn(w))

\* a job is pending, no job is outstanding and every worker thread waits
allWorkersWait ==
    /\ sched.pendingJobCount > 0
    /\ sched.outstandingJobs = 0
    /\ \A w \in DOMAIN workerThreads : workerThreads[w].pc = "blocked"

\* C35: of finitely many submitted jobs, each is eventually dispatched: from
\* some time on no job is pending, and the scheduler is never in a state in
\* which a job is pending, no job is outstanding and every worker thread is
\* waiting.
C35_EveryJobDispatched ==
    /\ []~allWorkersWait
    /\ <>[](sched.pendingJobCount = 0)

(***************************************************************************)
(* The placement coordinator with its threads scheduled: a worker that can *)
(* take work takes it, the addClients and delClient calls of a worker on   *)
(* its replica return, and the RPC thread waiting in placeClient runs      *)
(* again once g_workComplete was signalled.                                *)
(***************************************************************************)
\* a worker is back from the addClients and delClient calls on its replica
\* and is about to call workComplete
workerReturned(w) == pcThread.pos = "waiting" /\ workers[w].pc = "rpc"

\* g_workComplete was signalled and placeClient is about to run again
placeClientSignalled ==
    pcThread.pos = "waiting" /\ g_workComplete /\ ~placeClientWaits(PState)

\* WorkerComplete(w) is enabled exactly in the states of workerReturned(w),
\* and PlaceClientDone after the signal in those of placeClientSignalled:
\* their weak fairness is that these states do not last for ever
ThreadsRun ==
    /\ \A w \in 1..NumReplicas : WF_pcVars(WorkerTake(w)) /\ []<>~workerReturned(w)
    /\ []<>~placeClientSignalled

\* a step in which placeClient returns from its wait for the workers
placeClientReturns ==
    /\ pcThread.pos = "waiting"
    /\ \/ pcThread'.pos = "idle"
       \/ pcThread'.pos = "waiting" /\ pcThread'.i # pcThread.i

\* the candidates of the search that were not attempted
notAttempted == { k \in DOMAIN search.tried : search.tried[k] = "none" }

\* C36: every placeClient call returns: the process does not end inside it and
\* a wait for the workers ends; it returns from the wait only when no attempt
\* is outstanding and every candidate was attempted or cancelled by a success
\* before it, and the last worker's signal reaches it.
C36_PlaceClientReturns ==
    /\ [](pcThread.pos # "exited")
    /\ (pcThread.pos = "waiting") ~> (pcThread.pos = "idle")
    /\ [][placeClientReturns =>
            /\ g_workComplete
            /\ g_outstandingWork = 0
            /\ \A k \in notAttempted : \E j \in Succeeded : j < k]_pcVars

(***************************************************************************)
(* The admission service with queues deleted.  The engine keeps the ids of *)
(* the affected queues across calls; delQueue takes a queue away.          *)
(***************************************************************************)
NC_delQueue(e, queueId) == [e EXCEPT !.queues = Restrict(@, (DOMAIN @) \ {queueId})]

admission_controller_del_queue_svc(e, name) ==
    LET queueId == getQueueIdByName(e, name)
    IN IF queueId = InvalidId
       THEN [nc |-> e, result |-> [status |-> "ERR_QUEUE_NAME_NONEXISTENT"]]
       ELSE IF e.queues[queueId].flows # <<>>
       THEN [nc |-> e, result |-> [status |-> "ERR_QUEUE_HAS_ACTIVE_FLOWS"]]
       ELSE [nc |-> NC_delQueue(e, queueId), result |-> [status |-> "SUCCESS"]]

DelQueueArgs == Range(QueueNames) \cup {"QX"}

DelQueue ==
    /\ Served
    /\ \E name \in DelQueueArgs :
        \E o \in {admission_controller_del_queue_svc(nc, name)} :
           /\ nc' = o.nc
           /\ acResult' = o.result
           /\ acCall' = [op |-> "delQueue", name |-> name]
           /\ UNCHANGED <<clientInfoStore, enforcer, acRunning>>
    /\ UNCHANGED <<pcVars, ssVars, lkVars, kaVars, esVars, dnVars, occVars, rvVars>>

\* the affected queue ids that name no queue of the engine
staleQueueIds(e) == e.affected \ DOMAIN e.queues

\* the addClients call gets as far as the latency check, whose first latency
\* runs the re-optimization that is due
reoptimizes(e, arg, fastFirstFit) ==
    /\ stringToJson(arg)
    /\ checkClientInfos(e, arg.json) = "SUCCESS"
    /\ ~(fastFirstFit /\ checkOverload(e, arg.json))
    /\ arg.json.arr # <<>>
    /\ ~admitOverride(arg.json.arr)

\* calcShaperParameters reads the flows of a queue that getQueue did not
\* find: the read through the null pointer ends the process, or it yields no
\* flow and the id is dropped
NullQueueReads == {"fault", "empty"}

\* text that does not parse, and every client info of the catalogue alone
SingleClientArgs ==
    {[ok |-> FALSE, json |-> JStr("{")]}
    \cup { [ok |-> TRUE, json |-> JArr(<<ValidInfo(k)>>)] :
              k \in 1..(NumClients + Len(FlaggedClients)) }

\* the calls the service is followed for when queues are deleted: an
\* addClients call can follow the last call
MaxQueueCalls == MaxCalls + 1

AddClientsOne ==
    /\ acRunning /\ acCalls < MaxQueueCalls /\ acCalls' = acCalls + 1
    /\ \E arg \in SingleClientArgs, fastFirstFit \in BOOLEAN, delivery \in Deliveries,
          read \in NullQueueReads :
          LET null == staleQueueIds(nc) # {} /\ reoptimizes(nc, arg, fastFirstFit)
          IN IF null /\ read = "fault"
             THEN /\ acRunning' = FALSE
                  /\ acCall' = [op |-> "addClients", fault |-> TRUE]
                  /\ UNCHANGED <<nc, clientInfoStore, enforcer, acResult>>
             ELSE \E o \in {admission_controller_add_clients_svc(
                                IF null THEN [nc EXCEPT !.affected = @ \cap DOMAIN nc.queues]
                                ELSE nc,
                                clientInfoStore, enforcer, arg, fastFirstFit, delivery)} :
                     /\ acRunning' = o.running
                     /\ nc' = o.nc
                     /\ clientInfoStore' = o.store
                     /\ enforcer' = o.enforcer
                     /\ acResult' = o.result
                     /\ acCall' = [op |-> "addClients", fault |-> FALSE]
    /\ UNCHANGED <<pcVars, ssVars, lkVars, kaVars, esVars, dnVars, occVars, rvVars>>

NextAQ == AddClientsOne \/ DelClient \/ AddQueue \/ DelQueue

\* C37: every id in the set of affected queues names a queue of the engine,
\* so that the re-optimization that runs next finds each of them.
C37_AffectedQueuesExist == nc.affected \subseteq DOMAIN nc.queues

\* the enforcer of every flow of an admitted client that names one holds the
\* priority and the rate-limit list the engine has for the flow
enforcersCurrent ==
    \A c \in DOMAIN clientInfoStore :
       \A f \in enforcedFlows(<<clientInfoStore[c]>>) :
          enforcer[f.clientAddr] = setFlowParameters(f, nc)

\* the step is a call of addClients or delClient that returns, and whatever
\* an addClients call sent to an enforcer arrived
parametersSent ==
    /\ acCalls' = acCalls + 1
    /\ acRunning'
    /\ \/ acCall'.op = "delClient"
       \/ acCall'.op = "addClients" /\ acCall'.delivery \in {"delivered", "none"}

\* C38: when the enforcers hold the current parameters of the admitted flows
\* before a call of addClients or delClient, they hold them after it: the
\* parameters of the flows of the batch, and those of the flows admitted
\* before whose priority or shaper curve the call's re-optimization changed.
C38_EnforcersFollowEngine ==
    [][(parametersSent /\ enforcersCurrent) => enforcersCurrent']_acVars

(***************************************************************************)
(* The placement coordinator with VMs coming and going: client VMs and     *)
(* server VMs are added and deleted between the calls that place and       *)
(* remove workloads, in any order.                                         *)
(***************************************************************************)
\* AdmissionController_clnt::delQueue: the replica keeps a queue that a
\* client it holds has a flow on
replica_delQueue(rep, q) ==
    IF \E c \in rep.clients : q \in clientQueues(c) THEN rep
    ELSE [rep EXCEPT !.queues = @ \ {q}]

\* placement_controller_del_client_vm_svc
placement_controller_del_client_vm_svc(p, clientHost, clientVM) ==
    IF clientHost \in DOMAIN p.clients /\ clientVM \in p.clients[clientHost]
    THEN LET clientVMs == p.clients[clientHost] \ {clientVM}
             inUse == \E k \in DOMAIN p.workloads : p.workloads[k].clientHost = clientHost
         IN IF clientVMs = {} /\ ~inUse
            THEN [p EXCEPT !.replicas = [r \in DOMAIN @ |->
                                replica_delQueue(replica_delQueue(@[r], getQueueInName(clientHost)),
                                                 getQueueOutName(clientHost))],
                           !.clients = Restrict(@, (DOMAIN @) \ {clientHost}),
                           !.result = [status |-> "SUCCESS"]]
            ELSE [p EXCEPT !.clients[clientHost] = clientVMs,
                           !.result = [status |-> "SUCCESS"]]
    ELSE [p EXCEPT !.result = [status |-> "ERR_CLIENT_VM_NONEXISTENT"]]

\* placement_controller_del_server_vm_svc
placement_controller_del_server_vm_svc(p, serverHost, serverVM) ==
    IF serverHost \in DOMAIN p.servers /\ serverVM \in p.servers[serverHost]
    THEN LET serverVMs == p.servers[serverHost] \ {serverVM}
             inUse == \E k \in DOMAIN p.workloads :
                         p.workloads[k].serverHost = serverHost /\ p.workloads[k].serverVM = serverVM
             withoutVM == [p EXCEPT !.replicas = [r \in DOMAIN @ |->
                                replica_delQueue(@[r], getServerName(serverHost, serverVM))]]
         IN IF inUse THEN [p EXCEPT !.result = [status |-> "ERR_SERVER_VM_IN_USE"]]
            ELSE IF serverVMs = {}
            THEN [withoutVM EXCEPT
                     !.replicas = [r \in DOMAIN @ |->
                                replica_delQueue(replica_delQueue(@[r], getQueueInName(serverHost)),
                                                 getQueueOutName(serverHost))],
                     !.servers = Restrict(@, (DOMAIN @) \ {serverHost}),
                     !.result = [status |-> "SUCCESS"]]
            ELSE [withoutVM EXCEPT !.servers[serverHost] = serverVMs,
                                   !.result = [status |-> "SUCCESS"]]
    ELSE [p EXCEPT !.result = [status |-> "ERR_SERVER_VM_NONEXISTENT"]]

\* the client VMs and the server VMs of the calls
ClientVMArgs == Range(ClientVMList)

ServerVMArgs == {<<"S0", "1">>, <<"S2", "1">>}

AddClientVM ==
    /\ pcThread.pos = "idle"
    /\ \E c \in ClientVMArgs :
          SetP([placement_controller_add_client_vm_svc(PState, c[1], c[2]) EXCEPT
                  !.call = [op |-> "addClientVM"]])
    /\ UNCHANGED <<workers, pcCalls, acVars, ssVars, lkVars, kaVars, esVars, dnVars, occVars, rvVars>>

DelClientVM ==
    /\ pcThread.pos = "idle"
    /\ \E c \in ClientVMArgs :
          SetP([placement_controller_del_client_vm_svc(PState, c[1], c[2]) EXCEPT
                  !.call = [op |-> "delClientVM"]])
    /\ UNCHANGED <<workers, pcCalls, acVars, ssVars, lkVars, kaVars, esVars, dnVars, occVars, rvVars>>

AddServerVM ==
    /\ pcThread.pos = "idle"
    /\ \E s \in ServerVMArgs :
          SetP([placement_controller_add_server_vm_svc(PState, s[1], s[2]) EXCEPT
                  !.call = [op |-> "addServerVM"]])
    /\ UNCHANGED <<workers, pcCalls, acVars, ssVars, lkVars, kaVars, esVars, dnVars, occVars, rvVars>>

DelServerVM ==
    /\ pcThread.pos = "idle"
    /\ \E s \in ServerVMArgs :
          SetP([placement_controller_del_server_vm_svc(PState, s[1], s[2]) EXCEPT
                  !.call = [op |-> "delServerVM"]])
    /\ UNCHANGED <<workers, pcCalls, acVars, ssVars, lkVars, kaVars, esVars, dnVars, occVars, rvVars>>

NextPV ==
    \/ AddClientVM
    \/ DelClientVM
    \/ AddServerVM
    \/ DelServerVM
    \/ PlacementAddClients
    \/ PlacementDelClients
    \/ \E w \in 1..NumReplicas : WorkerTake(w)
    \/ \E w \in 1..NumReplicas : WorkerComplete(w)
    \/ PlaceClientDone

\* the client VM of the k-th placed workload
assignedVM(k) == <<g_workloads[k].clientHost, g_workloads[k].clientVM>>

\* the free client VMs
freeVMs == UNION { { <<h, v>> : v \in g_clients[h] } : h \in DOMAIN g_clients }

\* C39: no client VM is assigned to two placed workloads and no client VM is
\* at once free and assigned to a placed workload, whatever calls add and
\* delete client VMs, server VMs and workloads.
C39_ClientVMsExclusive ==
    /\ \A i, j \in DOMAIN g_workloads : i # j => assignedVM(i) # assignedVM(j)
    /\ \A k \in DOMAIN g_workloads : assignedVM(k) \notin freeVMs

\* two workloads are placed on VMs of one client host, and the VM a removed
\* workload gave back is asked for again
C39_Witness ==
    /\ Len(g_workloads) >= 2
    /\ g_workloads[1].clientHost = g_workloads[2].clientHost
    /\ pcCall.op \in {"addClientVM", "delClientVM"}
    /\ freeVMs # {}

(***************************************************************************)
(* The threads that receive requests.  custom_svc_getreq_common_thread     *)
(* runs one thread for a connection; the thread holds the mutex of the     *)
(* connection except while it waits on one of its condition variables.     *)
(***************************************************************************)
\* the limit on the pending jobs of a tenant: 8 in the code, a smaller limit
\* here, that pending jobs of two connections can reach
maxPendingJobsPerClient == 2

\* the requests received over all the connections
MaxRecvJobs == 3

\* svc_getcaller: the address of the peer of a connection; the two
\* connections are of one tenant
caller == <<1, 1>>

Fds == DOMAIN caller

\* Scheduler::GetNumPendingJobs: [s, numPending]
GetNumPendingJobs(s, s_addr, t) ==
    LET g == GetClient(s, s_addr, t)
    IN [s |-> g, numPending |-> Len(g.clients[s_addr].pendingJobs)]

\* the requests that can arrive over a connection as the job with this id
ReceivedJobs(id, fd) ==
    { Job(id, caller[fd], p, 2) @@ [fd |-> fd] : p \in {"READ", "GETATTR"} }

\* the thread of a connection holds the mutex of the connection
holdsMutex(fd) == receivers[fd].pc \in {"recv", "check", "more"}

InitRV == receivers = [fd \in Fds |-> [pc |-> "idle"]]

\* custom_svc_getreq_poll: the connection has input, its thread is started
\* or woken from the wait on CV
Poll(fd) ==
    /\ receivers[fd].pc = "idle"
    /\ receivers' = [receivers EXCEPT ![fd].pc = "recv"]
    /\ UNCHANGED <<acVars, pcVars, ssVars, lkVars, kaVars, esVars, dnVars, occVars>>

\* custom_svc_getreq_common_thread: SVC_RECV, and proxy_dispatch for the
\* request it read
Receive(fd) ==
    /\ receivers[fd].pc = "recv"
    /\ receivers' = [receivers EXCEPT ![fd].pc = "check"]
    /\ \/ /\ jobCount < MaxRecvJobs
          /\ jobCount' = jobCount + 1
          /\ \E pJob \in ReceivedJobs(jobCount + 1, fd) :
                \E r \in {AddJob(sched, pJob, now)} :
                   /\ sched' = r.s
                   /\ IF r.signal THEN workerThreads' \in Signalled(workerThreads)
                      ELSE UNCHANGED workerThreads
                   /\ dispatchedWork' =
                         IF r.signal
                         THEN [dispatchedWork EXCEPT
                                  ![pJob.s_addr] = NoWork(r.s.clients[pJob.s_addr].rateLimitTokens)]
                         ELSE dispatchedWork
       \/ UNCHANGED <<sched, workerThreads, jobCount, dispatchedWork>>
    /\ UNCHANGED <<now, dispatched, acVars, pcVars, lkVars, kaVars, esVars, dnVars, occVars>>

\* custom_svc_getreq_common_thread: the tenant's pending jobs are counted and
\* the thread waits on recvJobCV when they reach the limit
CheckPending(fd) ==
    /\ receivers[fd].pc = "check"
    /\ \E r \in {GetNumPendingJobs(sched, caller[fd], now)} :
          /\ sched' = r.s
          /\ receivers' = [receivers EXCEPT ![fd].pc =
                              IF r.numPending >= maxPendingJobsPerClient THEN "blocked" ELSE "more"]
    /\ UNCHANGED <<now, workerThreads, jobCount, dispatched, dispatchedWork,
                   acVars, pcVars, lkVars, kaVars, esVars, dnVars, occVars>>

\* custom_svc_getreq_common_thread: SVC_STAT tells whether more requests are
\* there; when none is the thread waits on CV
MoreReqs(fd) ==
    /\ receivers[fd].pc = "more"
    /\ \E more \in BOOLEAN : receivers' = [receivers EXCEPT ![fd].pc = IF more THEN "recv" ELSE "idle"]
    /\ UNCHANGED <<acVars, pcVars, ssVars, lkVars, kaVars, esVars, dnVars, occVars>>

\* RunJob up to CompleteJob: the call to storage returns, and under the mutex
\* of the job's connection recvJobCV of that connection is signalled when the
\* tenant has fewer pending jobs than the limit
RunJobSignal(w) ==
    /\ workerThreads[w].pc = "run"
    /\ ~holdsMutex(workerThreads[w].pJob.fd)
    /\ \E n \in {GetNumPendingJobs(sched, workerThreads[w].pJob.s_addr, now)} :
          /\ receivers' =
                IF n.numPending < maxPendingJobsPerClient
                   /\ receivers[workerThreads[w].pJob.fd].pc = "blocked"
                THEN [receivers EXCEPT ![workerThreads[w].pJob.fd].pc = "more"]
                ELSE receivers
          /\ \E failed \in BOOLEAN :
                \E r \in {CompleteJob(n.s, workerThreads[w].pJob)} :
                   /\ sched' = r.s
                   /\ workerThreads' =
                         [IF r.broadcast THEN Broadcast(workerThreads) ELSE workerThreads
                             EXCEPT ![w] = IF failed THEN [pc |-> "ready"]
                                           ELSE [pc |-> "completed", pJob |-> workerThreads[w].pJob]]
    /\ UNCHANGED <<now, jobCount, dispatched, dispatchedWork,
                   acVars, pcVars, lkVars, kaVars, esVars, dnVars, occVars>>

NextRV ==
    \/ \E fd \in Fds : Poll(fd)
    \/ \E fd \in Fds : Receive(fd)
    \/ \E fd \in Fds : CheckPending(fd)
    \/ \E fd \in Fds : MoreReqs(fd)
    \/ \E w \in 1..MaxWorkers : GetNextJob(w)
    \/ \E w \in 1..MaxWorkers : RunJobSignal(w)
    \/ \E w \in 1..MaxWorkers : RunJobReturn(w)

rsVars == <<ssVars, rvVars>>

\* every thread goes on: a step a thread is at is taken (weak fairness), and
\* a worker thread that asks for the mutex of the connection of its job is
\* handed it in the end.  GetNextJob is enabled whenever its thread is at it,
\* so its weak fairness is written with the thread's position, as is the
\* handing over of the mutex to RunJobSignal.
ThreadsGoOn ==
    /\ \A w \in 1..MaxWorkers :
          /\ []<>(workerThreads[w].pc # "ready")
          /\ []<>(workerThreads[w].pc # "run")
          /\ WF_rsVars(RunJobReturn(w))
    /\ \A fd \in Fds :
          /\ WF_rsVars(Receive(fd))
          /\ WF_rsVars(CheckPending(fd))
          /\ WF_rsVars(MoreReqs(fd))

\* the number of pending jobs of the tenant of a connection
numPending(fd) ==
    IF caller[fd] \in DOMAIN sched.clients THEN Len(sched.clients[caller[fd]].pendingJobs) ELSE 0

\* a job is submitted over the connection
submits(fd) ==
    /\ jobCount' = jobCount + 1
    /\ \E a \in DOMAIN sched'.clients :
          /\ sched'.clients[a].pendingJobs # <<>>
          /\ sched'.clients[a].pendingJobs[Len(sched'.clients[a].pendingJobs)].id = jobCount'
          /\ sched'.clients[a].pendingJobs[Len(sched'.clients[a].pendingJobs)].fd = fd

\* C40: a receiving thread that waits because its tenant has at least
\* maxPendingJobsPerClient pending jobs is woken once the tenant has fewer,
\* also when those jobs arrived over another connection of the tenant; while
\* it waits no job is submitted over its connection.
C40_BlockedReceiverWoken ==
    /\ \A fd \in Fds :
          (receivers[fd].pc = "blocked" /\ numPending(fd) < maxPendingJobsPerClient)
             ~> (receivers[fd].pc # "blocked")
    /\ [][\A fd \in Fds : receivers[fd].pc = "blocked" => ~submits(fd)]_rsVars

(***************************************************************************)
(* The specifications.                                                     *)
(***************************************************************************)
vars == <<acVars, pcVars, ssVars, lkVars, kaVars, esVars, dnVars, occVars, rvVars>>

Init == InitAC /\ InitPC /\ InitSS /\ InitLK /\ InitKA /\ InitES /\ InitDN /\ InitOC /\ InitRV

SpecAC == Init /\ [][NextAC]_vars

SpecPC == Init /\ [][NextPC]_vars

SpecSS == Init /\ [][NextSS]_vars

SpecLK == Init /\ [][NextLK]_vars

SpecKA == Init /\ [][NextKA]_vars

SpecES == Init /\ [][NextES]_vars

SpecDN == Init /\ [][NextDN]_vars

SpecOC == Init /\ [][NextOC]_vars

SpecWK == Init /\ [][NextWK]_vars /\ WorkersRun

SpecPF == Init /\ [][NextPC]_vars /\ ThreadsRun

SpecAQ == Init /\ [][NextAQ]_vars

SpecPV == Init /\ [][NextPV]_vars

SpecRV == Init /\ [][NextRV]_vars /\ ThreadsGoOn

====
